---- MODULE Spec2Model ----
(***************************************************************************)
(* State-machine model of the analysis orchestration of multiplay          *)
(* (src/app.py): the session registry (SessionManager), the /api/analyze   *)
(* handler (AppHandler.do_POST), the parallel run coordinator              *)
(* (_iter_all_tools) and the session reaper.                               *)
(*                                                                         *)
(* Threads: one handler thread per in-flight HTTP request                  *)
(* (ThreadingHTTPServer), the daemon reaper thread, and the main thread,   *)
(* which calls destroy_all and exits the process at shutdown.              *)
(* Time is counted in units of SESSION_MAX_IDLE_SECONDS.                   *)
(* A local variable of the code that is dead (never read again) is set     *)
(* back to its initial value, so that states differing only in dead        *)
(* values are one state.                                                   *)
(***************************************************************************)
EXTENDS Integers, Sequences, FiniteSets, TLC

\* ------------------------------------------------------------------ bounds
NumClientIds == 1      \* distinct X-Session-Id values clients present
MaxSessions == 2       \* Session objects created over a run
MaxTime == 2           \* the monotonic clock stops ticking here
NumTools == 3          \* length of the prefix of the tool order a streaming run draws from
MaxFiles == 2          \* entries of a submitted file list
MaxCalls == 2          \* calls applied in a row to the detailed sandbox
MaxNames == 3          \* entries of an enabled_tools list
MaxCoord == 9          \* largest 0-based line or column of a diagnostic

\* ------------------------------------------------------- program constants
\* SESSION_MAX_IDLE_SECONDS, in the model's time unit
MaxIdle == 1

\* The handler threads that can be in flight at once.
Requests == {"r1", "r2"}
ClientIdNames == <<"x", "y", "z">>
UuidHex == <<"u1", "u2", "u3", "u4", "u5">>

ClientIds == {ClientIdNames[i] : i \in 1..NumClientIds}
Reaper == "reaper"
Free == "free"

\* The X-Session-Id header of a request: absent, the empty string, or an id.
NoHeader == "<absent>"
Headers == {NoHeader, ""} \cup ClientIds

\* Sandbox directories: the fixed MULTIPLAY_PROJECT_DIR and what mkdtemp returns.
FixedDir == "fixed"
TempDirNames == <<"t1", "t2", "t3", "t4", "t5">>
TempDirs == {TempDirNames[i] : i \in 1..Len(TempDirNames)}
Dirs == {FixedDir} \cup TempDirs

TOOL_ORDER == <<"ty", "pyright", "pyrefly", "mypy", "zuban", "pycroscope">>
RUFF_TY_TOOL_NAME == "ty_ruff"
TOOL_SPEC_BY_NAME == {TOOL_ORDER[i] : i \in 1..Len(TOOL_ORDER)}

\* _tool_order_for_request: ty_ruff goes after ty when an alternate ruff
\* source is supplied.
ToolOrderForRequest(ruff) ==
    IF ruff
    THEN <<TOOL_ORDER[1], RUFF_TY_TOOL_NAME>> \o SubSeq(TOOL_ORDER, 2, Len(TOOL_ORDER))
    ELSE TOOL_ORDER

VARIABLES
    fixed,      \* SessionManager._fixed_project_dir is not None
    HOSTED_MODE,    \* MULTIPLAY_HOSTED=1 was set when the process started
    now,        \* time.monotonic()
    registry,   \* SessionManager._sessions: session id -> index of its Session
    mgrLock,    \* SessionManager._manager_lock: the thread holding it, or Free
    sessions,   \* every Session object created, by creation index:
                \* [id, project_dir, lock (holder or Free), last_active]
    disk,       \* sandbox directories that exist
    files,      \* per directory: index of the session whose files it holds (0: none)
    venv,       \* directories that hold a .venv
    procs,      \* tool processes alive: [sess: the session whose sandbox is the cwd, tool]
    pc,         \* per handler thread: its position in do_POST
    hdr,        \* per handler thread: the request's X-Session-Id header
    sess,       \* per handler thread: the Session get_or_create returned (0: none)
    created,    \* per handler thread: the created flag get_or_create returned
    enabled,    \* per handler thread: enabled_tools of the request
    workers,    \* per handler thread: the futures of the run, tool -> outcome
    doneQ,      \* per handler thread: finished futures as_completed has not yielded yet
    sent,       \* per handler thread: the records written to the response
    conn,       \* per handler thread: the client is still connected
    failed,     \* per handler thread: response writes of the request that raised
    refresh_venv,       \* per handler thread: refresh_venv of the request
    dependencies,       \* per handler thread: the request has a non-empty dependency list
    dependency_install, \* per handler thread: returncode of the install result
    path,       \* per handler thread: the path of the request it handles ("": none)
    rpc,        \* the reaper thread's position in reap_stale
    rnow,       \* reap_stale's local now
    toRemove,   \* reap_stale's to_remove (session indices)
    rPending,   \* the entries of to_remove the removal loop has not reached yet
    reapCount,  \* the value reap_stale returned last
    tree,       \* one sandbox directory in detail: path -> "dir" or file content
    call,       \* the sandbox function applied last to tree, with its arguments
    returned,   \* what that call returned or raised
    ncalls      \* the number of calls applied to tree

regVars == <<registry, mgrLock, sessions>>
fsVars == <<disk, files, venv>>
reqVars == <<pc, hdr, sess, created, enabled, workers, doneQ, sent, conn>>
runVars == <<enabled, workers, doneQ, sent>>
reaperVars == <<rpc, rnow, toRemove, rPending, reapCount>>
localVars == <<failed, refresh_venv, dependencies, dependency_install, path>>
sandboxVars == <<tree, call, returned, ncalls>>
staticVars == <<fixed, HOSTED_MODE, sandboxVars>>
serverVars == <<now, regVars, fsVars, procs, reqVars, localVars, reaperVars>>
vars == <<staticVars, serverVars>>

EmptyFn == [x \in {} |-> 0]

SessionIdx == 1..Len(sessions)

\* The sessions currently in the registry.
Registered == {registry[i] : i \in DOMAIN registry}

\* ------------------------------------------------------------------- Init
\* The process memory after SessionManager.__init__, before any request.
InitMemory ==
    /\ registry = EmptyFn
    /\ mgrLock = Free
    /\ sessions = <<>>
    /\ hdr = [r \in Requests |-> NoHeader]
    /\ sess = [r \in Requests |-> 0]
    /\ created = [r \in Requests |-> FALSE]
    /\ enabled = [r \in Requests |-> {}]
    /\ workers = [r \in Requests |-> EmptyFn]
    /\ doneQ = [r \in Requests |-> <<>>]
    /\ sent = [r \in Requests |-> <<>>]
    /\ conn = [r \in Requests |-> TRUE]
    /\ failed = [r \in Requests |-> 0]
    /\ refresh_venv = [r \in Requests |-> FALSE]
    /\ dependencies = [r \in Requests |-> FALSE]
    /\ dependency_install = [r \in Requests |-> 0]
    /\ path = [r \in Requests |-> ""]
    /\ rnow = 0
    /\ toRemove = {}
    /\ rPending = {}
    /\ reapCount = 0

\* No call has been applied to the detailed sandbox.
NoCall == [op |-> "none"]
NoResult == [raised |-> "none"]

InitServer ==
    /\ now = 0
    /\ disk = {}
    /\ files = [d \in Dirs |-> 0]
    /\ venv = {}
    /\ procs = {}
    /\ pc = [r \in Requests |-> "idle"]
    /\ rpc = "sleep"
    /\ InitMemory

\* The server after main() has read its options, not hosted.
Init ==
    /\ fixed \in BOOLEAN
    /\ HOSTED_MODE = FALSE
    /\ InitServer
    /\ tree = EmptyFn
    /\ call = NoCall
    /\ returned = NoResult
    /\ ncalls = 0

\* time.monotonic() advances.
Tick ==
    /\ now < MaxTime
    /\ now' = now + 1
    /\ UNCHANGED <<localVars, staticVars, regVars, fsVars, procs, reqVars, reaperVars>>

\* ------------------------------------------------------- SessionManager
\* A registry without mutual exclusion: the manager lock never blocks.
ManagerLockFree_open == TRUE

\* `with self._manager_lock:` can be entered.
ManagerLockFree == mgrLock = Free

\* `session_id and session_id in self._sessions` (line 101)
Known(h) == h \notin {NoHeader, ""} /\ h \in DOMAIN registry

\* `session_id if session_id else uuid.uuid4().hex` (line 106): a generated id
\* is one no client presents and no earlier session has.
SidFor(h) == IF h \notin {NoHeader, ""} THEN h ELSE UuidHex[Len(sessions) + 1]

\* A directory allocator that hands the same name out again.
Mkdtemp_reuse == TempDirNames[1]

\* tempfile.mkdtemp(prefix=...) (line 111) creates a directory under a random
\* name that did not exist; like a uuid, a name is not handed out twice. The
\* names are interchangeable, so they are handed out in a fixed order.
Mkdtemp == TempDirNames[Len(sessions) + 1]

\* The project_dir of a new session (lines 107-111).
NewProjectDir == IF fixed THEN FixedDir ELSE Mkdtemp

\* At most MaxSessions Session objects are created: a call that would need
\* one more is not started.
CanResolve(h) == Known(h) \/ Len(sessions) < MaxSessions

\* The paths that are answered with information about the session (do_GET,
\* lines 1061-1089).
GetPaths == {"/api/health", "/api/bootstrap"}

\* Where a handler goes on once it has its session: do_POST reads the body
\* (line 1144), do_GET writes its response (lines 1063, 1072).
AfterSession(r) == IF path[r] \in GetPaths THEN "respond" ELSE "parse"

\* get_or_create, entering `with self._manager_lock` (line 100).
GetOrCreateEnter(r) ==
    /\ pc[r] = "resolve"
    /\ ManagerLockFree
    /\ CanResolve(hdr[r])
    /\ mgrLock' = r
    /\ pc' = [pc EXCEPT ![r] = "goc_lookup"]
    /\ UNCHANGED <<localVars, staticVars, now, registry, sessions, fsVars, procs, hdr, sess, created,
                   runVars, conn, reaperVars>>

\* get_or_create, lines 101-104: a known id returns the existing session,
\* refreshes last_active and leaves the lock; otherwise go on to create.
GetOrCreateLookup(r) ==
    /\ pc[r] = "goc_lookup"
    /\ IF Known(hdr[r])
       THEN /\ sessions' = [sessions EXCEPT ![registry[hdr[r]]].last_active = now]
            /\ sess' = [sess EXCEPT ![r] = registry[hdr[r]]]
            /\ created' = [created EXCEPT ![r] = FALSE]
            /\ hdr' = [hdr EXCEPT ![r] = NoHeader]
            /\ mgrLock' = Free
            /\ pc' = [pc EXCEPT ![r] = AfterSession(r)]
       ELSE /\ pc' = [pc EXCEPT ![r] = "goc_create"]
            /\ UNCHANGED <<sessions, sess, created, hdr, mgrLock>>
    /\ UNCHANGED <<localVars, staticVars, now, registry, fsVars, procs, runVars, conn, reaperVars>>

\* get_or_create, lines 106-120: allocate the directory, build the Session with
\* a new Lock, register it, leave the manager lock.
GetOrCreateNew(r) ==
    /\ pc[r] = "goc_create"
    /\ LET u == Len(sessions) + 1
           sid == SidFor(hdr[r])
           d == NewProjectDir
       IN  /\ sessions' = Append(sessions,
                   [id |-> sid, project_dir |-> d, lock |-> Free, last_active |-> now])
           /\ registry' = [i \in DOMAIN registry \cup {sid} |->
                               IF i = sid THEN u ELSE registry[i]]
           /\ disk' = disk \cup {d}
           /\ sess' = [sess EXCEPT ![r] = u]
    /\ created' = [created EXCEPT ![r] = TRUE]
    /\ hdr' = [hdr EXCEPT ![r] = NoHeader]
    /\ mgrLock' = Free
    /\ pc' = [pc EXCEPT ![r] = AfterSession(r)]
    /\ UNCHANGED <<localVars, staticVars, now, files, venv, procs, runVars, conn, reaperVars>>

\* shutil.rmtree(project_dir, ignore_errors=True)
Rmtree(d) ==
    /\ disk' = disk \ {d}
    /\ files' = [files EXCEPT ![d] = 0]
    /\ venv' = venv \ {d}

\* `now - session.last_active > max_idle_seconds` (line 128)
IsStale(u, t) == t - sessions[u].last_active > MaxIdle

\* reap_stale, lines 124-125: sample the clock, start with an empty to_remove.
ReapStart ==
    /\ rpc = "sleep"
    /\ rnow' = now
    /\ toRemove' = {}
    /\ rPending' = {}
    /\ reapCount' = 0
    /\ rpc' = "lock"
    /\ UNCHANGED <<localVars, staticVars, now, regVars, fsVars, procs, reqVars>>

\* reap_stale, line 126: enter `with self._manager_lock`.
ReapAcquire ==
    /\ rpc = "lock"
    /\ ManagerLockFree
    /\ mgrLock' = Reaper
    /\ rpc' = "scan"
    /\ UNCHANGED <<localVars, staticVars, now, registry, sessions, fsVars, procs, reqVars,
                   rnow, toRemove, rPending, reapCount>>

\* reap_stale, lines 127-130: unregister every stale session, leave the lock.
ReapScan ==
    /\ rpc = "scan"
    /\ LET stale == {u \in Registered : IsStale(u, rnow)}
       IN  /\ toRemove' = stale
           /\ rPending' = stale
           /\ registry' = [i \in {j \in DOMAIN registry : registry[j] \notin stale} |->
                               registry[i]]
    /\ mgrLock' = Free
    /\ rpc' = "delete"
    /\ UNCHANGED <<localVars, staticVars, now, sessions, fsVars, procs, reqVars, rnow, reapCount>>

\* reap_stale, lines 132-135: one turn of the removal loop, which runs without
\* any lock; to_remove is in registration order, that is by session index.
ReapDelete ==
    /\ rpc = "delete"
    /\ rPending # {}
    /\ LET u == CHOOSE v \in rPending : \A w \in rPending : v <= w
       IN  /\ rPending' = rPending \ {u}
           /\ IF fixed
              THEN UNCHANGED fsVars
              ELSE Rmtree(sessions[u].project_dir)
    /\ UNCHANGED <<localVars, staticVars, now, regVars, procs, reqVars, rpc, rnow, toRemove, reapCount>>

\* reap_stale, line 137: return len(to_remove); the reaper loop sleeps again.
ReapReturn ==
    /\ rpc = "delete"
    /\ rPending = {}
    /\ reapCount' = Cardinality(toRemove)
    /\ rnow' = 0
    /\ toRemove' = {}
    /\ rpc' = "sleep"
    /\ UNCHANGED <<localVars, staticVars, now, regVars, fsVars, procs, reqVars, rPending>>

\* destroy_all (lines 139-145), called by main's finally block, which then
\* calls os._exit(0) (lines 1351-1362): every thread stops where it is and the
\* process memory is gone; directories and child processes stay as they are.
DestroyAll ==
    /\ rpc # "exit"
    /\ ManagerLockFree
    /\ LET gone == IF fixed THEN {} ELSE {sessions[u].project_dir : u \in Registered}
       IN  /\ disk' = disk \ gone
           /\ files' = [d \in Dirs |-> IF d \in gone THEN 0 ELSE files[d]]
           /\ venv' = venv \ gone
    /\ pc' = [r \in Requests |-> "exit"]
    /\ rpc' = "exit"
    /\ registry' = EmptyFn
    /\ mgrLock' = Free
    /\ sessions' = <<>>
    /\ hdr' = [r \in Requests |-> NoHeader]
    /\ sess' = [r \in Requests |-> 0]
    /\ created' = [r \in Requests |-> FALSE]
    /\ enabled' = [r \in Requests |-> {}]
    /\ workers' = [r \in Requests |-> EmptyFn]
    /\ doneQ' = [r \in Requests |-> <<>>]
    /\ sent' = [r \in Requests |-> <<>>]
    /\ conn' = [r \in Requests |-> TRUE]
    /\ failed' = [r \in Requests |-> 0]
    /\ refresh_venv' = [r \in Requests |-> FALSE]
    /\ dependencies' = [r \in Requests |-> FALSE]
    /\ dependency_install' = [r \in Requests |-> 0]
    /\ path' = [r \in Requests |-> ""]
    /\ rnow' = 0
    /\ toRemove' = {}
    /\ rPending' = {}
    /\ reapCount' = 0
    /\ UNCHANGED <<staticVars, now, procs>>

\* ------------------------------------------------------- tool processes
ExitCodes == {0, 1}

\* What subprocess.run does for one worker: the process exits with a code and
\* some standard output (not JSON, a JSON object, or JSON that is no object),
\* the binary is missing, the timeout expires (run() kills the child and waits
\* for it before raising), or the launch fails with another OSError.
Running == [kind |-> "running", code |-> 0, stdout |-> "none"]
\* A submitted work item that no worker thread of the pool has taken yet.
Queued == [kind |-> "queued", code |-> 0, stdout |-> "none"]
ExitOutcomes(stdouts) == [kind : {"exit"}, code : ExitCodes, stdout : stdouts]
FailOutcomes(kinds) == [kind : kinds, code : {0}, stdout : {"none"}]

\* Only pyright's standard output is parsed (line 599); the alternate-source ty
\* runs with timeout None (LOCAL_CHECKOUT_TOOL_TIMEOUT_SECONDS): it cannot
\* time out.
ProcessOutcomes(t) ==
    ExitOutcomes(IF t = "pyright" THEN {"text", "object", "nonobject"} ELSE {"text"})
    \cup FailOutcomes(IF t = RUFF_TY_TOOL_NAME
                      THEN {"notfound", "oserror"}
                      ELSE {"notfound", "timeout", "oserror"})

\* _format_pyright_output raises (AttributeError on payload.get) exactly when
\* json.loads succeeds with a value that is not an object (lines 679-685).
FormatPyrightRaises(stdout) == stdout = "nonobject"

\* " ".join(command), the command field of a result.
JoinedCommand == "argv"

\* What a worker's call ends with: the dictionary _run_command returns (lines
\* 608-614), or an exception that leaves it.
Returned(name, returncode, output) ==
    [raised |-> FALSE, exc |-> "", tool |-> name, command |-> JoinedCommand,
     returncode |-> returncode, output |-> output]
Raised(exc) ==
    [raised |-> TRUE, exc |-> exc, tool |-> "", command |-> "", returncode |-> 0,
     output |-> ""]

\* _run_command (lines 576-615): the worker's return value, or that it raised.
\* Only FileNotFoundError and TimeoutExpired are caught.
RunCommand(name, o) ==
    CASE o.kind = "exit" ->
            IF name = "pyright" /\ FormatPyrightRaises(o.stdout)
            THEN Raised("AttributeError")
            ELSE Returned(name, o.code,
                          IF name = "pyright" /\ o.stdout = "object"
                          THEN "formatted diagnostics"
                          ELSE "stdout + stderr")
      [] o.kind = "notfound" -> Returned(name, -1, "Command not found")
      [] o.kind = "timeout" -> Returned(name, -2, "Timed out")
      [] OTHER -> Raised("OSError")

\* A coordinator whose synthetic record carries the code of a missing binary.
CollectResult_notfound(tool_name, rr) ==
    IF rr.raised
    THEN [tool |-> tool_name, command |-> "", returncode |-> -1,
          output |-> "Internal error: " \o rr.exc]
    ELSE [tool |-> rr.tool, command |-> rr.command, returncode |-> rr.returncode,
          output |-> rr.output]

\* _iter_all_tools, lines 909-919: future.result(), or the synthetic record
\* when it raises.
CollectResult(tool_name, rr) ==
    IF rr.raised
    THEN [tool |-> tool_name, command |-> "", returncode |-> -3,
          output |-> "Internal error: " \o rr.exc]
    ELSE [tool |-> rr.tool, command |-> rr.command, returncode |-> rr.returncode,
          output |-> rr.output]

\* _run_all_tools, lines 841-854: results[tool_name] is future.result(), or
\* the synthetic record, which here carries the joined command.
BatchResult(tool_name, rr) ==
    IF rr.raised
    THEN [tool |-> tool_name, command |-> JoinedCommand, returncode |-> -3,
          output |-> "Internal error: " \o rr.exc]
    ELSE [tool |-> rr.tool, command |-> rr.command, returncode |-> rr.returncode,
          output |-> rr.output]

\* _run_all_tools (lines 810-855) for a list of known tool names whose
\* processes end as `outs` says: the dictionary of results keyed by tool. The
\* dictionary command_by_tool has one entry per name.
RunAllTools(enabled_tools, outs) ==
    [t \in enabled_tools |-> BatchResult(t, RunCommand(t, outs[t]))]

\* A coordinator that forgets the alternate-source ty.
Launched_noruff(E) == E \cap TOOL_SPEC_BY_NAME

\* The futures _iter_all_tools submits (lines 870-906) for the enabled_tools of
\* a request: do_POST passes the names in TOOL_SPEC_BY_NAME, and the ruff
\* source when ty_ruff is enabled (lines 1195, 1224).
Launched(E) ==
    (E \cap TOOL_SPEC_BY_NAME) \cup (IF RUFF_TY_TOOL_NAME \in E THEN {RUFF_TY_TOOL_NAME} ELSE {})

\* The order in which _iter_all_tools submits the futures (lines 886-906): the
\* known tools in the order of enabled_tools, which do_POST passes in canonical
\* order, then the alternate-source ty.
LaunchOrder(E) ==
    LET IsEnabled(t) == t \in E
    IN  SelectSeq(TOOL_ORDER, IsEnabled)
        \o (IF RUFF_TY_TOOL_NAME \in Launched(E) THEN <<RUFF_TY_TOOL_NAME>> ELSE <<>>)

\* A pool with a single worker thread.
MaxWorkers_one(total_workers) == 1

\* ThreadPoolExecutor(max_workers=max(1, total_workers)), lines 885 and 830.
MaxWorkers(total_workers) == IF total_workers > 1 THEN total_workers ELSE 1

\* The state of the submitted work items once every submit has returned: the
\* pool starts a thread per item up to max_workers, the others wait in its
\* queue.
SubmitAll(E) ==
    LET order == LaunchOrder(E)
    IN  [t \in Launched(E) |->
            IF \E i \in 1..Len(order) : order[i] = t /\ i <= MaxWorkers(Len(order))
            THEN Running
            ELSE Queued]

\* The work items a freed worker thread takes next: the first one waiting.
TakeNext(E, w) ==
    LET order == LaunchOrder(E)
        waiting == {i \in 1..Len(order) : w[order[i]] = Queued}
    IN  IF waiting = {}
        THEN w
        ELSE LET first == CHOOSE i \in waiting : \A j \in waiting : i <= j
             IN  [w EXCEPT ![order[first]] = Running]

\* ------------------------------------------------------- response records
Rec(type, tool, data) == [type |-> type, tool |-> tool, data |-> data]
NoData == [tool |-> "", command |-> "", returncode |-> 0, output |-> ""]
Metadata == Rec("metadata", "", NoData)
Done == Rec("done", "", NoData)
ErrorResponse(status) == Rec("error", "", [NoData EXCEPT !.returncode = status])
ResultRecord(tool_name, result) == Rec("result", tool_name, result)

\* A write to the response: it reaches a connected client; once the client is
\* gone it raises BrokenPipeError and nothing is delivered.
Delivered(r, rec) == IF conn[r] THEN Append(sent[r], rec) ELSE sent[r]

\* The error object of a failed dependency install (lines 1176-1191): it
\* carries the install result.
InstallErrorResponse(returncode) ==
    Rec("error", "dependency_install_failed", [NoData EXCEPT !.returncode = returncode])

\* One write of a record to the response, followed, when it raises, by
\* `more` further writes the code attempts because of the exception.
Write(r, rec, more) ==
    /\ sent' = [sent EXCEPT ![r] = Delivered(r, rec)]
    /\ failed' = [failed EXCEPT ![r] = IF conn[r] THEN @ ELSE @ + 1 + more]

\* ------------------------------------------------------- do_POST
\* The part of do_POST inside `with session.lock:` (lines 1160-1230).
LockedSection == {"write", "refresh", "install", "metadata", "launch", "stream", "closing"}
InRun(r) == pc[r] \in LockedSection

\* One lock for all sessions: a session waits for every other session's run.
SessionLockFree_global(u) == \A v \in SessionIdx : sessions[v].lock = Free

\* `with session.lock:` can be entered.
SessionLockFree(u) == sessions[u].lock = Free

\* A handler that leaves the locked section with the lock still held.
ReleaseLock_kept(r) == sessions' = sessions

\* `with session.lock:` is left (line 1160), by return or by exception.
ReleaseLock(r) == sessions' = [sessions EXCEPT ![sess[r]].lock = Free]

\* do_POST returns: the handler thread ends and its locals are gone; the
\* response written stays with the client.
EndRequest(r) ==
    /\ pc' = [pc EXCEPT ![r] = "idle"]
    /\ sess' = [sess EXCEPT ![r] = 0]
    /\ enabled' = [enabled EXCEPT ![r] = {}]
    /\ workers' = [workers EXCEPT ![r] = EmptyFn]
    /\ doneQ' = [doneQ EXCEPT ![r] = <<>>]
    /\ conn' = [conn EXCEPT ![r] = TRUE]
    /\ refresh_venv' = [refresh_venv EXCEPT ![r] = FALSE]
    /\ dependencies' = [dependencies EXCEPT ![r] = FALSE]
    /\ dependency_install' = [dependency_install EXCEPT ![r] = 0]
    /\ path' = [path EXCEPT ![r] = ""]

\* A client sends POST /api/analyze; the server gives it a handler thread.
Request(r) ==
    /\ pc[r] = "idle"
    /\ \E h \in Headers : hdr' = [hdr EXCEPT ![r] = h]
    /\ pc' = [pc EXCEPT ![r] = "resolve"]
    /\ path' = [path EXCEPT ![r] = "/api/analyze"]
    /\ sent' = [sent EXCEPT ![r] = <<>>]
    /\ failed' = [failed EXCEPT ![r] = 0]
    /\ UNCHANGED <<staticVars, now, regVars, fsVars, procs, sess, created, enabled, workers,
                   doneQ, conn, refresh_venv, dependencies, dependency_install,
                   reaperVars>>

\* A client sends GET /api/health or GET /api/bootstrap.
Get(r) ==
    /\ pc[r] = "idle"
    /\ \E h \in Headers : hdr' = [hdr EXCEPT ![r] = h]
    /\ \E p \in GetPaths : path' = [path EXCEPT ![r] = p]
    /\ pc' = [pc EXCEPT ![r] = "resolve"]
    /\ sent' = [sent EXCEPT ![r] = <<>>]
    /\ failed' = [failed EXCEPT ![r] = 0]
    /\ UNCHANGED <<staticVars, now, regVars, fsVars, procs, sess, created, enabled, workers,
                   doneQ, conn, refresh_venv, dependencies, dependency_install,
                   reaperVars>>

\* do_GET, lines 1063-1067 and 1072-1088: the 200 response that names the
\* session, and the handler returns.
GetResponse(r) ==
    /\ pc[r] = "respond"
    /\ Write(r, Rec("ok", "", [NoData EXCEPT !.tool = sessions[sess[r]].id, !.returncode = 200]), 0)
    /\ EndRequest(r)
    /\ UNCHANGED <<staticVars, now, regVars, fsVars, procs, hdr, created, reaperVars>>

\* The client goes away while its request is being handled.
Disconnect(r) ==
    /\ pc[r] \notin {"idle", "exit"}
    /\ conn[r]
    /\ conn' = [conn EXCEPT ![r] = FALSE]
    /\ UNCHANGED <<localVars, staticVars, now, regVars, fsVars, procs, pc, hdr, sess, created, runVars,
                   reaperVars>>

\* A request body as the fields do_POST validates: what `files` is, what
\* `dependencies` is (an empty list, a list of package names, or something
\* else), whether python_version is supported, what ruff_repo_path is (absent,
\* a cargo workspace directory, or anything else), the names in enabled_tools
\* and refresh_venv.
FilesKinds == {"missing", "notlist", "empty", "list"}
DependenciesKinds == {"empty", "list", "malformed"}
PythonVersionKinds == {"supported", "unsupported"}
RuffRepoPathKinds == {"none", "dir", "bad"}
UnknownTool == "nosuchtool"

\* A validation that takes any target version.
NormalizePythonVersion_any(raw) == [raised |-> FALSE]

\* _normalize_dependencies (lines 244-266), _normalize_python_version (lines
\* 345-354), _normalize_ruff_repo_path (lines 297-319): ValueError, or the
\* value as far as the model needs it.
NormalizeDependencies(raw) == [raised |-> raw = "malformed", value |-> raw = "list"]
NormalizePythonVersion(raw) == [raised |-> raw = "unsupported"]
NormalizeRuffRepoPath(raw) == [raised |-> raw = "bad", value |-> raw = "dir"]

\* A text as a sequence of pieces, blanks among them, and str.strip() on it.
Blank == " "
RECURSIVE LStrip(_)
LStrip(name) == IF name # <<>> /\ Head(name) = Blank THEN LStrip(Tail(name)) ELSE name
RECURSIVE RStrip(_)
RStrip(name) ==
    IF name # <<>> /\ name[Len(name)] = Blank
    THEN RStrip(SubSeq(name, 1, Len(name) - 1))
    ELSE name

\* The value of the enabled_tools key: absent (None), something that is no
\* list, or a list of entries, each a text or something that is no string.
Absent == [kind |-> "none", items |-> <<>>]
NotList == [kind |-> "notlist", items |-> <<>>]
ListOf(items) == [kind |-> "list", items |-> items]
Text(t) == [isstr |-> TRUE, text |-> t]
NotStrItem == [isstr |-> FALSE, text |-> <<>>]
Range(q) == {q[i] : i \in 1..Len(q)}

\* The list of the names of a set, each spelled exactly, in some order.
RECURSIVE ListOfNames(_)
ListOfNames(names) ==
    IF names = {} THEN <<>>
    ELSE LET n == CHOOSE x \in names : TRUE
         IN  <<Text(<<n>>)>> \o ListOfNames(names \ {n})

\* A normalization that keeps the accepted names as the request lists them.
NormalizeEnabledToolsForOrder_asgiven(raw, tool_order) ==
    LET allowed == Range(tool_order)
        Name(item) == RStrip(LStrip(item.text))
        Unknown(item) == Name(item) # <<>> /\ ~(Len(Name(item)) = 1 /\ Name(item)[1] \in allowed)
        NotBlank(item) == Name(item) # <<>>
        kept == SelectSeq(raw.items, NotBlank)
    IN  IF raw.kind = "none" THEN [raised |-> FALSE, value |-> tool_order]
        ELSE IF raw.kind # "list" THEN [raised |-> TRUE, value |-> <<>>]
        ELSE IF \E i \in 1..Len(raw.items) : ~raw.items[i].isstr \/ Unknown(raw.items[i])
             THEN [raised |-> TRUE, value |-> <<>>]
        ELSE [raised |-> FALSE, value |-> [i \in 1..Len(kept) |-> Name(kept[i])[1]]]

\* _normalize_enabled_tools_for_order (lines 275-294): ValueError, or the
\* requested names in the order of tool_order. An entry is stripped; a blank
\* one is passed over, one that is no string or not in the tool order raises.
NormalizeEnabledToolsForOrder(raw, tool_order) ==
    LET allowed == Range(tool_order)
        Name(item) == RStrip(LStrip(item.text))
        Unknown(item) == Name(item) # <<>> /\ ~(Len(Name(item)) = 1 /\ Name(item)[1] \in allowed)
        requested == {Name(raw.items[i])[1] :
                        i \in {j \in 1..Len(raw.items) : Name(raw.items[j]) # <<>>}}
        IsRequested(tool_name) == tool_name \in requested
    IN  IF raw.kind = "none" THEN [raised |-> FALSE, value |-> tool_order]
        ELSE IF raw.kind # "list" THEN [raised |-> TRUE, value |-> <<>>]
        ELSE IF \E i \in 1..Len(raw.items) : ~raw.items[i].isstr \/ Unknown(raw.items[i])
             THEN [raised |-> TRUE, value |-> <<>>]
        ELSE [raised |-> FALSE, value |-> SelectSeq(tool_order, IsRequested)]

\* Lines 1144-1158: the validation of the body, in the order of the code; in
\* hosted mode ruff_repo_path is not looked at.
ReadRequest(body) ==
    LET deps == NormalizeDependencies(body.dependencies)
        source == NormalizeRuffRepoPath(body.ruff_repo_path)
        ruff_repo_path == ~HOSTED_MODE /\ source.value
        tools == NormalizeEnabledToolsForOrder(ListOf(ListOfNames(body.enabled_tools)),
                                               ToolOrderForRequest(ruff_repo_path))
    IN  [raised |-> \/ body.files # "list"
                    \/ deps.raised
                    \/ NormalizePythonVersion(body.python_version).raised
                    \/ (~HOSTED_MODE /\ source.raised)
                    \/ tools.raised,
         enabled_tools |-> Range(tools.value),
         dependencies |-> deps.value,
         refresh_venv |-> body.refresh_venv]

\* Lines 1141-1158: the created flag is dropped (line 1056), the body is read
\* and validated. A ValueError is answered with 400 (lines 1231-1234) without
\* the session lock being taken.
ParseBody(r, body) ==
    /\ pc[r] = "parse"
    /\ created' = [created EXCEPT ![r] = FALSE]
    /\ LET req == ReadRequest(body)
       IN  IF ~req.raised
           THEN /\ enabled' = [enabled EXCEPT ![r] = req.enabled_tools]
                /\ refresh_venv' = [refresh_venv EXCEPT ![r] = req.refresh_venv]
                /\ dependencies' = [dependencies EXCEPT ![r] = req.dependencies]
                /\ pc' = [pc EXCEPT ![r] = "lock_wait"]
                /\ UNCHANGED <<sent, failed, sess, workers, doneQ, conn, dependency_install,
                               path>>
           ELSE /\ Write(r, ErrorResponse(400), 0)
                /\ EndRequest(r)
    /\ UNCHANGED <<staticVars, now, regVars, fsVars, procs, hdr, reaperVars>>

\* Line 1160: `with session.lock:` is entered.
AcquireSessionLock(r) ==
    /\ pc[r] = "lock_wait"
    /\ SessionLockFree(sess[r])
    /\ sessions' = [sessions EXCEPT ![sess[r]].lock = r]
    /\ pc' = [pc EXCEPT ![r] = "write"]
    /\ UNCHANGED <<localVars, staticVars, now, registry, mgrLock, fsVars, procs, hdr, sess, created,
                   runVars, conn, reaperVars>>

\* A handler that refreshes the environment on every request.
RefreshRequested_always(r) == TRUE

\* `if refresh_venv:` (line 1163)
RefreshRequested(r) == refresh_venv[r]

\* Line 1161, _write_files_to_project (lines 200-231): the directory is made if
\* missing, everything but .venv is cleared, and the entries are written in
\* order; an invalid entry raises ValueError after the clearing and after the
\* entries before it were written ("partial") or with none written ("none");
\* a name that is a directory of an earlier entry, or below an earlier entry,
\* raises OSError after that entry was written ("oserror"), which is answered
\* with 500 (line 1235).
WriteFiles(r, how) ==
    /\ pc[r] = "write"
    /\ LET d == sessions[sess[r]].project_dir
       IN  /\ disk' = disk \cup {d}
           /\ files' = [files EXCEPT ![d] = IF how = "none" THEN 0 ELSE sess[r]]
    /\ IF how = "ok"
       THEN /\ pc' = [pc EXCEPT ![r] = IF RefreshRequested(r) THEN "refresh" ELSE "install"]
            /\ UNCHANGED <<sessions, sent, sess, enabled, workers, doneQ, conn, localVars>>
       ELSE /\ ReleaseLock(r)
            /\ Write(r, ErrorResponse(IF how = "oserror" THEN 500 ELSE 400), 0)
            /\ EndRequest(r)
    /\ UNCHANGED <<staticVars, now, registry, mgrLock, venv, procs, hdr, created, reaperVars>>

\* Lines 1163-1166: a request with refresh_venv removes the .venv of the
\* sandbox before the install.
RefreshVenv(r) ==
    /\ pc[r] = "refresh"
    /\ venv' = venv \ {sessions[sess[r]].project_dir}
    /\ pc' = [pc EXCEPT ![r] = "install"]
    /\ UNCHANGED <<localVars, staticVars, now, regVars, disk, files, procs, hdr, sess, created,
                   runVars, conn, reaperVars>>

\* ------------------------------------------------- the sandbox directory
\* A directory tree: each existing path (the sequence of its segments below
\* the sandbox directory) is "dir" or holds the content of a file. The sandbox
\* directory itself is the empty path; a tree without it is a missing sandbox.
Root == <<>>
VenvDir == <<".venv">>
VenvPython == <<".venv", "bin", "python">>
IsDir(project, p) == p \in DOMAIN project /\ project[p] = "dir"
Prefixes(p) == {SubSeq(p, 1, n) : n \in 0..Len(p)}
Restrict(project, keep) == [p \in keep |-> project[p]]

\* A file name as the pieces _safe_relative_path tells apart: segments, the
\* separators "/" and "\\", and blanks (see LStrip and RStrip).

\* raw_name.strip().replace("\\", "/") (line 188)
Normalized(raw_name) ==
    LET stripped == RStrip(LStrip(raw_name))
    IN  [i \in 1..Len(stripped) |-> IF stripped[i] = "\\" THEN "/" ELSE stripped[i]]

\* Path(normalized): the path's segments; separators, empty and "." segments
\* do not count, so equal paths have equal segments.
IsSegment(piece) == piece \notin {"/", "."}
Parts(normalized) == SelectSeq(normalized, IsSegment)
IsAbsolute(normalized) == normalized # <<>> /\ normalized[1] = "/"

\* _safe_relative_path (lines 187-197): the relative path, or ValueError.
SafeRelativePath(raw_name) ==
    LET normalized == Normalized(raw_name)
    IN  IF normalized = <<>> THEN [raised |-> TRUE, rel |-> <<>>]
        ELSE IF IsAbsolute(normalized) THEN [raised |-> TRUE, rel |-> <<>>]
        ELSE IF \E i \in 1..Len(Parts(normalized)) : Parts(normalized)[i] = ".."
             THEN [raised |-> TRUE, rel |-> <<>>]
        ELSE [raised |-> FALSE, rel |-> Parts(normalized)]

\* _reset_project_dir (lines 200-211): a missing directory is made; otherwise
\* every child but the one named .venv is removed.
ResetProjectDir(project) ==
    IF Root \notin DOMAIN project
    THEN (Root :> "dir")
    ELSE Restrict(project, {p \in DOMAIN project : p = Root \/ p[1] = ".venv"})

\* destination.parent.mkdir(parents=True, exist_ok=True) (line 230) raises an
\* OSError when the parent or one of its ancestors exists as a file.
MkdirRaises(project, p) == \E q \in Prefixes(p) : q \in DOMAIN project /\ project[q] # "dir"
Mkdir(project, p) == project @@ [q \in Prefixes(p) |-> "dir"]

\* A content that is no string.
NotStr == "<not a str>"

\* The loop of _write_files_to_project (lines 218-231) over the entries left,
\* with the paths seen so far: the tree it leaves and what it raised.
RECURSIVE WriteEntries(_, _, _)
WriteEntries(project, entries, seen) ==
    IF entries = <<>> THEN [raised |-> "none", tree |-> project]
    ELSE LET entry == Head(entries)
             safe == SafeRelativePath(entry.name)
             rel == safe.rel
             made == Mkdir(project, SubSeq(rel, 1, Len(rel) - 1))
         IN  IF entry.content = NotStr THEN [raised |-> "ValueError", tree |-> project]
             ELSE IF safe.raised THEN [raised |-> "ValueError", tree |-> project]
             ELSE IF rel \in seen THEN [raised |-> "ValueError", tree |-> project]
             ELSE IF MkdirRaises(project, SubSeq(rel, 1, Len(rel) - 1))
                  THEN [raised |-> "OSError", tree |-> project]
             ELSE IF IsDir(made, rel) THEN [raised |-> "OSError", tree |-> made]
             ELSE WriteEntries((rel :> entry.content) @@ made, Tail(entries),
                               seen \cup {rel})

\* _write_files_to_project (lines 214-231): the reset comes first.
WriteFilesToProject(project, entries) == WriteEntries(ResetProjectDir(project), entries, {})

\* How one external step of the installer ends, and the code reported for it.
InstallOutcomes == {"ok", "fail", "notfound", "timeout"}
InstallCode(o) ==
    CASE o = "ok" -> 0
      [] o = "fail" -> 1
      [] o = "notfound" -> -1
      [] OTHER -> -2

\* A package list that always counts as non-empty.
NothingToInstall_never(deps) == FALSE

\* `if not dependencies` (line 428); deps is whether the list is non-empty.
NothingToInstall(deps) == ~deps

\* An installer that never sees the environment.
VenvDirExists_never(project) == FALSE

\* `venv_dir.exists()` (line 443) and _venv_python_path (lines 416-424)
VenvDirExists(project) == VenvDir \in DOMAIN project
VenvPythonPath(project) == VenvPython \in DOMAIN project

\* What a successful `uv venv` and a successful `uv pip install` leave.
UvVenv(project) ==
    (VenvDir :> "dir") @@ (<<".venv", "bin">> :> "dir") @@ (VenvPython :> "python")
        @@ project
UvPipInstall(project) == (<<".venv", "lib">> :> "dir") @@ project

\* The result of _run_uv_pip_install, with the external steps it ran and how
\* each ended, and the tree it leaves.
InstallResult(ran, steps, returncode, project) ==
    [ran |-> ran, steps |-> steps, returncode |-> returncode,
     output |-> IF ran THEN "text" ELSE "", tree |-> project]
Step(command, how) == [command |-> command, how |-> how]

\* _run_uv_pip_install (lines 427-525): nothing to do for an empty package
\* list; otherwise `uv venv` when .venv does not exist (ending as o1), then,
\* if the environment has an interpreter, `uv pip install` (ending as o2). A
\* missing sandbox directory makes subprocess.run raise FileNotFoundError for
\* its cwd.
RunUvPipInstall(project, deps, o1, o2) ==
    IF NothingToInstall(deps) THEN InstallResult(FALSE, <<>>, 0, project)
    ELSE LET create == ~VenvDirExists(project)
             how1 == IF Root \in DOMAIN project THEN o1 ELSE "notfound"
             made == IF create THEN UvVenv(project) ELSE project
             steps == IF create THEN <<Step("uv venv", how1)>> ELSE <<>>
         IN  IF create /\ how1 # "ok"
             THEN InstallResult(TRUE, steps, InstallCode(how1), project)
             ELSE IF ~VenvPythonPath(made) THEN InstallResult(TRUE, steps, -1, made)
             ELSE InstallResult(TRUE, Append(steps, Step("uv pip install", o2)),
                                InstallCode(o2),
                                IF o2 = "ok" THEN UvPipInstall(made) ELSE made)

\* The sandbox of a session as a tree, as far as the server model tracks it:
\* the directory and an environment with its interpreter.
SandboxTree(d) ==
    IF d \notin disk THEN EmptyFn
    ELSE IF d \in venv THEN UvVenv((Root :> "dir"))
    ELSE (Root :> "dir")

\* A handler that installs just the dependencies whatever the refresh flag.
PackagesToInstall_deps(r) == dependencies[r]

\* The package list is non-empty (lines 1167-1170): with refresh_venv it holds
\* the tool packages, otherwise just the dependencies.
PackagesToInstall(r) == refresh_venv[r] \/ dependencies[r]

\* A gate that stops only for a missing uv binary.
DependencyInstallFailed_missing(returncode) == returncode = -1

\* Line 1175: the install result counts as failed.
DependencyInstallFailed(returncode) == returncode # 0

\* Lines 1172-1192: the install, and the error response when it did not return
\* 0; o1 and o2 are how `uv venv` and `uv pip install` end if they are run. The
\* error response raises inside `with session.lock` when the client is gone,
\* and the handler at line 1235 then attempts a response of its own.
Install(r, o1, o2) ==
    /\ pc[r] = "install"
    /\ LET d == sessions[sess[r]].project_dir
           res == RunUvPipInstall(SandboxTree(d), PackagesToInstall(r), o1, o2)
       IN  /\ venv' = IF VenvDirExists(res.tree) THEN venv \cup {d} ELSE venv \ {d}
           /\ IF ~DependencyInstallFailed(res.returncode)
              THEN /\ pc' = [pc EXCEPT ![r] = "metadata"]
                   /\ dependency_install' =
                          [dependency_install EXCEPT ![r] = res.returncode]
                   /\ UNCHANGED <<sessions, sent, failed, sess, enabled, workers, doneQ,
                                  conn, refresh_venv, dependencies, path>>
              ELSE /\ ReleaseLock(r)
                   /\ Write(r, InstallErrorResponse(res.returncode), 1)
                   /\ EndRequest(r)
    /\ UNCHANGED <<staticVars, now, registry, mgrLock, disk, files, procs, hdr, created,
                   reaperVars>>

\* Lines 1199-1214: the response head and the metadata record, which carries
\* the dependency list and the install result. When the client is gone the write raises
\* BrokenPipeError outside the inner try: the lock is left, the handler at
\* line 1235 attempts an error response, which raises again, and
\* handle_one_request swallows the error.
SendMetadata(r) ==
    /\ pc[r] = "metadata"
    /\ Write(r, Metadata, 1)
    /\ IF conn[r]
       THEN /\ pc' = [pc EXCEPT ![r] = "launch"]
            /\ dependencies' = [dependencies EXCEPT ![r] = FALSE]
            /\ UNCHANGED <<sessions, sess, enabled, workers, doneQ, conn, refresh_venv,
                           dependency_install, path>>
       ELSE /\ ReleaseLock(r)
            /\ EndRequest(r)
    /\ UNCHANGED <<staticVars, now, registry, mgrLock, fsVars, procs, hdr, created, reaperVars>>

\* _iter_all_tools up to the first as_completed (lines 869-906): one future per
\* launched tool, all submitted to a pool with one worker each; every worker
\* starts its process with the sandbox as working directory.
LaunchTools(r) ==
    /\ pc[r] = "launch"
    /\ workers' = [workers EXCEPT ![r] = SubmitAll(enabled[r])]
    /\ procs' = procs \cup {[sess |-> sess[r], tool |-> t] :
                               t \in {u \in Launched(enabled[r]) : workers'[r][u] = Running}}
    /\ pc' = [pc EXCEPT ![r] = "stream"]
    /\ UNCHANGED <<localVars, staticVars, now, regVars, fsVars, hdr, sess, created, enabled, doneQ,
                   sent, conn, reaperVars>>

\* A worker's subprocess.run returns or raises: its process is gone and its
\* future is finished. After the generator was closed nobody collects it.
ToolFinish(r, t, o) ==
    /\ pc[r] \in {"stream", "closing"}
    /\ t \in DOMAIN workers[r]
    /\ workers[r][t] = Running
    /\ o \in ProcessOutcomes(t)
    /\ workers' = [workers EXCEPT ![r] = TakeNext(enabled[r], [@ EXCEPT ![t] = o])]
    /\ procs' = (procs \ {[sess |-> sess[r], tool |-> t]})
                 \cup {[sess |-> sess[r], tool |-> u] :
                          u \in {v \in DOMAIN workers[r] :
                                   workers[r][v] = Queued /\ workers'[r][v] = Running}}
    /\ doneQ' = [doneQ EXCEPT ![r] = IF pc[r] = "stream" THEN Append(@, t) ELSE @]
    /\ UNCHANGED <<localVars, staticVars, now, regVars, fsVars, pc, hdr, sess, created, enabled,
                   sent, conn, reaperVars>>

\* An executor that is left without waiting for its workers.
ExecutorShutdownDone_nowait(r) == TRUE

\* `with ThreadPoolExecutor(...)` is left (line 885): shutdown(wait=True)
\* returns when no worker is running any more.
ExecutorShutdownDone(r) == \A t \in DOMAIN workers[r] : workers[r][t] # Running

\* A stream that ends as soon as no finished future is waiting to be yielded.
StreamExhausted_early(r) == doneQ[r] = <<>>

\* as_completed has nothing more to yield (line 908): every future was yielded.
StreamExhausted(r) == doneQ[r] = <<>> /\ ExecutorShutdownDone(r)

\* A coordinator that hands nothing on before every worker has finished.
CompletedAvailable_all(r) ==
    doneQ[r] # <<>> /\ \A t \in DOMAIN workers[r] : workers[r][t] # Running

\* `for future in as_completed(futures)` (line 908) has a finished future to
\* hand on.
CompletedAvailable(r) == doneQ[r] # <<>>

\* Lines 908-919 and 1227: as_completed yields a finished future, the record is
\* built and written. A BrokenPipeError leaves the for loop: the generator is
\* dropped and closed, which unwinds through the executor's `with` block.
YieldResult(r) ==
    /\ pc[r] = "stream"
    /\ CompletedAvailable(r)
    /\ LET t == Head(doneQ[r])
           result == CollectResult(t, RunCommand(t, workers[r][t]))
       IN  Write(r, ResultRecord(t, result), 0)
    /\ IF conn[r]
       THEN /\ doneQ' = [doneQ EXCEPT ![r] = Tail(@)]
            /\ UNCHANGED pc
       ELSE /\ doneQ' = [doneQ EXCEPT ![r] = <<>>]
            /\ pc' = [pc EXCEPT ![r] = "closing"]
    /\ UNCHANGED <<staticVars, now, regVars, fsVars, procs, hdr, sess, created, enabled,
                   workers, conn, refresh_venv, dependencies, dependency_install, path,
                   reaperVars>>

\* Lines 1228-1230: the generator is exhausted, the done record is written (a
\* BrokenPipeError is passed over) and `with session.lock:` is left.
SendDone(r) ==
    /\ pc[r] = "stream"
    /\ StreamExhausted(r)
    /\ Write(r, Done, 0)
    /\ ReleaseLock(r)
    /\ EndRequest(r)
    /\ UNCHANGED <<staticVars, now, registry, mgrLock, fsVars, procs, hdr, created, reaperVars>>

\* The closed generator has left the executor's `with` block: the except
\* clause at line 1229 is reached and `with session.lock:` is left.
CloseGenerator(r) ==
    /\ pc[r] = "closing"
    /\ ExecutorShutdownDone(r)
    /\ ReleaseLock(r)
    /\ EndRequest(r)
    /\ UNCHANGED <<staticVars, now, registry, mgrLock, fsVars, procs, hdr, created, sent,
                   failed, reaperVars>>

\* ------------------------------------------------------- specifications
\* One step of a handler thread, its inputs drawn from the given sets: the
\* request bodies, how materialization ends, how the installer's two steps
\* end [o1, o2], and the outcomes of tool processes.
HandlerStep(r, bodies, hows, installs, outcomes) ==
    \/ Request(r)
    \/ GetOrCreateEnter(r)
    \/ GetOrCreateLookup(r)
    \/ GetOrCreateNew(r)
    \/ \E body \in (IF pc[r] = "parse" THEN bodies ELSE {}) : ParseBody(r, body)
    \/ AcquireSessionLock(r)
    \/ \E how \in hows : WriteFiles(r, how)
    \/ \E i \in installs : Install(r, i.o1, i.o2)
    \/ SendMetadata(r)
    \/ LaunchTools(r)
    \/ \E t \in DOMAIN workers[r], o \in outcomes : ToolFinish(r, t, o)
    \/ YieldResult(r)
    \/ SendDone(r)

CleanExit == [kind |-> "exit", code |-> 0, stdout |-> "text"]
TimedOut == [kind |-> "timeout", code |-> 0, stdout |-> "none"]
InstallOk == [o1 |-> "ok", o2 |-> "ok"]

\* A body that passes validation: the tools E with an alternate ruff source
\* when ty_ruff is among them, and a dependency list.
ValidBody(E) ==
    [files |-> "list", dependencies |-> "list", python_version |-> "supported",
     ruff_repo_path |-> IF RUFF_TY_TOOL_NAME \in E THEN "dir" ELSE "none",
     enabled_tools |-> E, refresh_venv |-> FALSE]
EmptyFilesBody(E) == [ValidBody(E) EXCEPT !.files = "empty"]

\* The registry specification: two handler threads whose clients stay
\* connected, the clock, the reaper thread and shutdown.
SessBodies == {ValidBody({"ty"}), EmptyFilesBody({"ty"})}
SessHows == {"ok", "partial"}
SessInstalls == {InstallOk}
SessOutcomes == {CleanExit}

Next ==
    \/ Tick
    \/ ReapStart
    \/ ReapAcquire
    \/ ReapScan
    \/ ReapDelete
    \/ ReapReturn
    \/ DestroyAll
    \/ \E r \in Requests : HandlerStep(r, SessBodies, SessHows, SessInstalls, SessOutcomes)

Spec == Init /\ [][Next]_vars

\* The serving specification: two handler threads whose clients can go away
\* at any moment and whose tools can time out; no session gets stale.
ServeBodies == {ValidBody({"ty", "pyright"}), EmptyFilesBody({"ty", "pyright"})}
ServeHows == {"ok"}
ServeInstalls == {InstallOk}
ServeOutcomes == {CleanExit, TimedOut}

NextServe ==
    \E r \in Requests :
        \/ Disconnect(r)
        \/ CloseGenerator(r)
        \/ HandlerStep(r, ServeBodies, ServeHows, ServeInstalls, ServeOutcomes)

SpecServe == Init /\ [][NextServe]_vars

\* The locking specification: two handler threads whose clients may go away
\* at any moment, with every way materialization ends, an install that
\* succeeds or fails, and a tool that exits or times out.
LockBodies == {ValidBody({"pyright"})}
LockHows == {"ok", "partial", "none", "oserror"}
LockInstalls == {InstallOk, [o1 |-> "ok", o2 |-> "fail"]}
LockOutcomes == {CleanExit, TimedOut}

NextLock ==
    \E r \in Requests :
        \/ Disconnect(r)
        \/ CloseGenerator(r)
        \/ HandlerStep(r, LockBodies, LockHows, LockInstalls, LockOutcomes)

SpecLock == Init /\ [][NextLock]_vars

\* The streaming specification: one handler thread of a server with temporary
\* sandboxes, hosted or not; every request body over the first NumTools tools
\* of the order with an alternate ruff source and an unknown tool name, every
\* way materialization and the installer's steps end, and every outcome of
\* every tool.
RunTools == {ToolOrderForRequest(TRUE)[i] : i \in 1..NumTools}
RunBodies ==
    [files : FilesKinds, dependencies : DependenciesKinds,
     python_version : PythonVersionKinds, ruff_repo_path : RuffRepoPathKinds,
     enabled_tools : SUBSET (RunTools \cup {UnknownTool}), refresh_venv : BOOLEAN]
RunInstalls == [o1 : InstallOutcomes, o2 : InstallOutcomes]
RunOutcomes == UNION {ProcessOutcomes(t) : t \in RunTools}

InitRun ==
    /\ fixed = FALSE
    /\ HOSTED_MODE \in BOOLEAN
    /\ InitServer
    /\ tree = EmptyFn
    /\ call = NoCall
    /\ returned = NoResult
    /\ ncalls = 0

NextRun ==
    \/ Disconnect("r1")
    \/ CloseGenerator("r1")
    \/ RefreshVenv("r1")
    \/ HandlerStep("r1", RunBodies, {"ok", "partial", "none", "oserror"}, RunInstalls,
                   RunOutcomes)

SpecRun == InitRun /\ [][NextRun]_vars

\* The sandbox specification: _write_files_to_project and _run_uv_pip_install
\* applied, up to MaxCalls times in a row, to one sandbox directory, with file
\* lists of up to MaxFiles entries over names of every kind
\* _safe_relative_path tells apart and with every way the installer's steps
\* can end. The server is at rest.
RawNames ==
    { <<"a">>, <<"b">>, <<"a", "/", "b">>, <<"a", "\\", "b">>, <<Blank, "a">>,
      <<".venv">>, <<".venv", "/", "a">>,
      <<>>, <<Blank>>, <<"/", "a">>, <<"..", "/", "a">> }
Contents == {"x", "y"}
Entries ==
    [name : RawNames, content : Contents] \cup {[name |-> <<"b">>, content |-> NotStr]}
FileLists == UNION {[1..n -> Entries] : n \in 1..MaxFiles}

\* The sandbox before the first call: missing, empty, with an environment and
\* a file of an earlier run, or with an environment whose creation was cut
\* short before it had an interpreter.
InitTrees ==
    { EmptyFn, (Root :> "dir"), (<<"old">> :> "x") @@ UvVenv((Root :> "dir")),
      (VenvDir :> "dir") @@ (Root :> "dir") }

InitSandbox ==
    /\ fixed = FALSE
    /\ HOSTED_MODE = FALSE
    /\ InitServer
    /\ tree \in InitTrees
    /\ call = NoCall
    /\ returned = NoResult
    /\ ncalls = 0

\* _write_files_to_project(project_dir, files) is called.
CallWriteFiles(entries) ==
    /\ ncalls < MaxCalls
    /\ LET res == WriteFilesToProject(tree, entries)
       IN  /\ tree' = res.tree
           /\ returned' = [raised |-> res.raised]
    /\ call' = [op |-> "_write_files_to_project", files |-> entries]
    /\ ncalls' = ncalls + 1
    /\ UNCHANGED <<fixed, HOSTED_MODE, serverVars>>

\* _run_uv_pip_install(project_dir, dependencies) is called.
CallInstall(deps, o1, o2) ==
    /\ ncalls < MaxCalls
    /\ LET res == RunUvPipInstall(tree, deps, o1, o2)
       IN  /\ tree' = res.tree
           /\ returned' = [ran |-> res.ran, steps |-> res.steps,
                           returncode |-> res.returncode, output |-> res.output]
    /\ call' = [op |-> "_run_uv_pip_install", dependencies |-> deps]
    /\ ncalls' = ncalls + 1
    /\ UNCHANGED <<fixed, HOSTED_MODE, serverVars>>

NextSandbox ==
    \/ \E entries \in FileLists : CallWriteFiles(entries)
    \/ \E deps \in BOOLEAN, o1 \in InstallOutcomes, o2 \in InstallOutcomes :
           CallInstall(deps, o1, o2)

SpecSandbox == InitSandbox /\ [][NextSandbox]_vars

\* ------------------------------------------------------- pyright adapter
\* Path(text): whether it is absolute, and its segments. pathlib drops
\* separators and "." segments and keeps ".." segments.
PathOf(text) == [abs |-> IsAbsolute(text), parts |-> Parts(text)]

\* Path.as_posix(): the segments joined by "/", after the root if absolute.
RECURSIVE Join(_)
Join(parts) ==
    IF Len(parts) <= 1 THEN parts ELSE <<parts[1], "/">> \o Join(Tail(parts))
AsPosix(p) == (IF p.abs THEN <<"/">> ELSE <<>>) \o Join(p.parts)

\* Path.relative_to(root): a comparison of segments; ValueError unless the
\* segments of root start those of the path.
RelativeTo(p, root) ==
    IF /\ p.abs = root.abs
       /\ Len(root.parts) <= Len(p.parts)
       /\ SubSeq(p.parts, 1, Len(root.parts)) = root.parts
    THEN [raised |-> FALSE,
          value |-> [abs |-> FALSE,
                     parts |-> SubSeq(p.parts, Len(root.parts) + 1, Len(p.parts))]]
    ELSE [raised |-> TRUE, value |-> p]

\* The file system the paths of diagnostics are resolved in: /link is a
\* symbolic link to /sandbox.
LinkName == "link"
LinkTarget == "sandbox"

\* Path.resolve(strict=False) of an absolute path: from left to right a ".."
\* leaves the directory reached so far and a symbolic link is followed.
RECURSIVE ResolveParts(_, _)
ResolveParts(reached, rest) ==
    IF rest = <<>> THEN reached
    ELSE IF Head(rest) = ".."
         THEN ResolveParts(SubSeq(reached, 1, Len(reached) - 1), Tail(rest))
    ELSE IF reached = <<>> /\ Head(rest) = LinkName
         THEN ResolveParts(<<LinkTarget>>, Tail(rest))
    ELSE ResolveParts(Append(reached, Head(rest)), Tail(rest))
Resolve(p) == [abs |-> TRUE, parts |-> ResolveParts(<<>>, p.parts)]

\* _relativize_path (lines 745-766): a path that is not absolute is shown as
\* it is; otherwise the first of (path, cwd) and (resolved path, resolved cwd)
\* for which relative_to succeeds gives the text, and if none does the path
\* is shown as it is.
RelativizePath(path_text, cwd) ==
    LET p == PathOf(path_text)
        lexical == RelativeTo(p, cwd)
        resolved == RelativeTo(Resolve(p), Resolve(cwd))
    IN  IF ~p.abs THEN AsPosix(p)
        ELSE IF ~lexical.raised THEN AsPosix(lexical.value)
        ELSE IF ~resolved.raised THEN AsPosix(resolved.value)
        ELSE AsPosix(p)

\* A JSON value where an integer is looked for, and one where a string is.
IntValue(n) == [isint |-> TRUE, n |-> n]
NotIntValue == [isint |-> FALSE, n |-> 0]
StrValue(text) == [isstr |-> TRUE, text |-> text]
NotStrValue == [isstr |-> FALSE, text |-> <<>>]

\* Lines 701-709: `str(line + 1)` for an integer, "?" otherwise.
DisplayCoordinate(v) == IF v.isint THEN ToString(v.n + 1) ELSE "?"

\* _format_pyright_output, lines 688-717, for one item of generalDiagnostics
\* that is an object with a range and a start: the path and the coordinates
\* of the line it appends.
FormatDiagnostic(item, cwd) ==
    [display_path |-> IF item.file.isstr /\ item.file.text # <<>>
                      THEN RelativizePath(item.file.text, cwd)
                      ELSE <<"<unknown>">>,
     line_no |-> DisplayCoordinate(item.line),
     col_no |-> DisplayCoordinate(item.character)]

\* A captured standard output, by what a JSON parser makes of it: text that
\* is no JSON ("plain"), nothing ("empty"), one of the constants NaN and
\* Infinity, an array opened more often than the parser can nest and never
\* closed ("deep"), or a JSON document (array, string, number, null, object).
Stdout(form) == [form |-> form, text |-> <<"<", form, ">">>]

\* The JSON grammar: only the last five forms are documents.
IsValidJson(stdout) == stdout.form \in {"array", "string", "number", "null", "object"}

\* json.loads(stdout): the kind of value it returns, or what it raises. It
\* accepts the constants NaN and Infinity as floats, and nesting beyond the
\* recursion limit ends it with RecursionError before the end of the text is
\* looked at.
JsonLoads(stdout) ==
    CASE stdout.form \in {"plain", "empty"} -> [raised |-> "JSONDecodeError", value |-> "none"]
      [] stdout.form = "deep" -> [raised |-> "RecursionError", value |-> "none"]
      [] stdout.form = "constant" -> [raised |-> "none", value |-> "number"]
      [] OTHER -> [raised |-> "none", value |-> stdout.form]

\* _format_pyright_output (lines 678-742) as a whole: the text it returns, or
\* the exception that leaves it. Only JSONDecodeError is caught (line 681);
\* `payload.get` (line 685) raises AttributeError on a value that is no object.
FormatPyrightOutput(stdout, stderr) ==
    LET payload == JsonLoads(stdout)
    IN  IF payload.raised = "JSONDecodeError"
        THEN [raised |-> "none", text |-> stdout.text \o stderr]
        ELSE IF payload.raised # "none"
             THEN [raised |-> payload.raised, text |-> <<>>]
        ELSE IF payload.value # "object"
             THEN [raised |-> "AttributeError", text |-> <<>>]
        ELSE [raised |-> "none", text |-> <<"formatted diagnostics">>]

\* Line 598 of _run_command: the output of a completed process.
NormalizeOutput(name, stdout, stderr) ==
    IF name = "pyright"
    THEN FormatPyrightOutput(stdout, stderr)
    ELSE [raised |-> "none", text |-> stdout.text \o stderr]

\* ------------------------------------------------------- command builder
\* A text is a sequence of pieces and an argv a sequence of texts.
Arg(piece) == <<piece>>
None == <<"None">>
EndsWith(text, suffix) == text # <<>> /\ text[Len(text)] = suffix
SUPPORTED_PYTHON_VERSIONS == <<"3.10", "3.11", "3.12", "3.13", "3.14">>
PYTHON_IMPLEMENTED_TOOLS == {"mypy", "pycroscope"}

\* ToolSpec.command of TOOL_SPECS (lines 55-66).
SpecCommand(name) ==
    CASE name = "ty" -> <<Arg("ty"), Arg("check")>>
      [] name = "pyright" -> <<Arg("pyright"), Arg("--outputjson")>>
      [] name = "pyrefly" -> <<Arg("pyrefly"), Arg("check")>>
      [] name = "mypy" -> <<Arg("mypy")>>
      [] name = "zuban" -> <<Arg("zuban"), Arg("check")>>
      [] name = "pycroscope" ->
            <<Arg("pycroscope"), Arg("--output-format"), Arg("concise")>>

\* _command_for_local_python_tool (lines 528-532)
CommandForLocalPythonTool(name, repo_path) ==
    IF SpecCommand(name) = <<>> THEN <<>>
    ELSE <<Arg("uv"), Arg("run"), Arg("--with-editable"), <<name, " @ ">> \o repo_path>>
         \o SpecCommand(name)

\* Lines 549-558: the target-version flag of a tool; pycroscope has none.
VersionFlag(name, python_version) ==
    CASE name \in {"mypy", "pyrefly", "ty", "zuban"} ->
            <<Arg("--python-version"), python_version>>
      [] name = "pyright" -> <<Arg("--pythonversion"), python_version>>
      [] OTHER -> <<>>

\* _command_for_tool (lines 535-573). python_tool_repo_paths is a function
\* from tool names to paths and file_paths a list of texts or None.
CommandForTool(name, venv_python, python_tool_repo_paths, file_paths, python_version) ==
    LET repo_path == IF name \in DOMAIN python_tool_repo_paths
                     THEN python_tool_repo_paths[name]
                     ELSE None
        command == (IF repo_path # None
                    THEN CommandForLocalPythonTool(name, repo_path)
                    ELSE SpecCommand(name))
                   \o VersionFlag(name, python_version)
        bound == IF venv_python # None /\ repo_path = None /\ command # <<>>
                 THEN IF name = "zuban"
                      THEN command \o <<Arg("--python-executable"), venv_python>>
                      ELSE <<venv_python, Arg("-m")>> \o command
                 ELSE command
        IsPy(f) == EndsWith(f, ".py")
        py_files == SelectSeq(IF file_paths = None THEN <<>> ELSE file_paths, IsPy)
    IN  bound \o (IF py_files # <<>> THEN py_files ELSE <<Arg(".")>>)

\* The call specification: one of the server's pure functions is applied once
\* to an argument; the server is at rest, hosted or not.
ToolItems ==
    { Text(<<"ty">>), Text(<<Blank, "ty", Blank>>), Text(<<"pyright">>),
      Text(<<RUFF_TY_TOOL_NAME>>), Text(<<UnknownTool>>), Text(<<>>), Text(<<Blank>>),
      NotStrItem }
EnabledToolsValues ==
    {Absent, NotList} \cup {ListOf(items) : items \in UNION {[1..n -> ToolItems] : n \in 0..MaxNames}}

\* The names of submitted files: a module, a stub, a configuration file and a
\* module under the environment's directory.
PathNames ==
    { <<"main", ".py">>, <<"stub", ".pyi">>, <<"pyproject", ".toml">>,
      <<".venv", "/", "site", ".py">> }
FilePathsValues == {None} \cup UNION {[1..n -> PathNames] : n \in 0..MaxFiles}
VenvPythonValues == {None, Arg("/sandbox/.venv/bin/python")}
RepoPathsValues ==
    UNION {[names -> {Arg("/repo")}] : names \in SUBSET PYTHON_IMPLEMENTED_TOOLS}

\* The file of a diagnostic: in the sandbox, in a package of it, elsewhere,
\* reached through the link, with parent segments that leave the sandbox or
\* stay in it or lead into it, relative, empty, or no string.
DiagnosticFiles ==
    { StrValue(<<"/", "sandbox", "/", "main.py">>),
      StrValue(<<"/", "sandbox", "/", "pkg", "/", "mod.py">>),
      StrValue(<<"/", "other", "/", "lib.py">>),
      StrValue(<<"/", "link", "/", "main.py">>),
      StrValue(<<"/", "sandbox", "/", "..", "/", "other", "/", "lib.py">>),
      StrValue(<<"/", "sandbox", "/", "pkg", "/", "..", "/", "main.py">>),
      StrValue(<<"/", "other", "/", "..", "/", "sandbox", "/", "main.py">>),
      StrValue(<<"main.py">>),
      StrValue(<<>>),
      NotStrValue }
Coordinates == {IntValue(n) : n \in 0..MaxCoord} \cup {NotIntValue}
Diagnostics == [file : DiagnosticFiles, line : Coordinates, character : Coordinates]
\* The sandbox root as the server names it: directly or through the link.
CwdValues == {<<"/", "sandbox">>, <<"/", "link">>}

InitCalls ==
    /\ fixed = FALSE
    /\ HOSTED_MODE \in BOOLEAN
    /\ InitServer
    /\ tree = EmptyFn
    /\ call = NoCall
    /\ returned = NoResult
    /\ ncalls = 0

\* Lines 1151-1158: the tool order of the request is made from the alternate
\* ruff source (none in hosted mode) and enabled_tools is normalized for it.
\* `source` says that the body names a usable ruff checkout.
CallNormalizeEnabledTools(raw, source) ==
    /\ call = NoCall
    /\ LET ruff_repo_path == ~HOSTED_MODE /\ source
           res == NormalizeEnabledToolsForOrder(raw, ToolOrderForRequest(ruff_repo_path))
       IN  returned' = [raised |-> res.raised, value |-> res.value]
    /\ call' = [op |-> "_normalize_enabled_tools_for_order", raw |-> raw,
                ruff_repo_path |-> source]
    /\ UNCHANGED <<fixed, HOSTED_MODE, serverVars, tree, ncalls>>

\* _command_for_tool is called, as _iter_all_tools does for each selected
\* tool (lines 872-875).
CallCommandForTool(name, venv_python, python_tool_repo_paths, file_paths, python_version) ==
    /\ call = NoCall
    /\ returned' = [argv |-> CommandForTool(name, venv_python, python_tool_repo_paths,
                                            file_paths, python_version)]
    /\ call' = [op |-> "_command_for_tool", name |-> name, venv_python |-> venv_python,
                python_tool_repo_paths |-> python_tool_repo_paths,
                file_paths |-> file_paths, python_version |-> python_version]
    /\ UNCHANGED <<fixed, HOSTED_MODE, serverVars, tree, ncalls>>

\* _format_pyright_output is applied to the output of pyright with one
\* diagnostic, as _run_command does for the tool pyright (line 598).
CallFormatPyrightOutput(item, cwd) ==
    /\ call = NoCall
    /\ returned' = FormatDiagnostic(item, PathOf(cwd))
    /\ call' = [op |-> "_format_pyright_output", item |-> item, cwd |-> cwd]
    /\ UNCHANGED <<fixed, HOSTED_MODE, serverVars, tree, ncalls>>

\* Lines 596-599 of _run_command: the captured output of a completed process
\* of the tool `name` is normalized.
CallNormalizeOutput(name, stdout, stderr) ==
    /\ call = NoCall
    /\ returned' = NormalizeOutput(name, stdout, stderr)
    /\ call' = [op |-> "_run_command.output", name |-> name, stdout |-> stdout,
                stderr |-> stderr]
    /\ UNCHANGED <<fixed, HOSTED_MODE, serverVars, tree, ncalls>>

NextCalls ==
    \/ \E name \in {"ty", "pyright"},
          form \in {"plain", "empty", "constant", "deep", "array", "string", "number",
                    "null", "object"},
          stderr \in {<<>>, <<"stderr text">>} :
            CallNormalizeOutput(name, Stdout(form), stderr)
    \/ \E raw \in EnabledToolsValues, source \in BOOLEAN : CallNormalizeEnabledTools(raw, source)
    \/ \E item \in Diagnostics, cwd \in CwdValues : CallFormatPyrightOutput(item, cwd)
    \/ \E name \in TOOL_SPEC_BY_NAME, venv_python \in VenvPythonValues,
          python_tool_repo_paths \in RepoPathsValues, file_paths \in FilePathsValues,
          v \in 1..Len(SUPPORTED_PYTHON_VERSIONS) :
            CallCommandForTool(name, venv_python, python_tool_repo_paths, file_paths,
                               Arg(SUPPORTED_PYTHON_VERSIONS[v]))

SpecCalls == InitCalls /\ [][NextCalls]_vars

\* The information specification: two handler threads that serve health and
\* bootstrap requests with any session header, and the clock.
NextGet ==
    \/ Tick
    \/ \E r \in Requests :
          \/ Get(r)
          \/ GetOrCreateEnter(r)
          \/ GetOrCreateLookup(r)
          \/ GetOrCreateNew(r)
          \/ GetResponse(r)

SpecGet == Init /\ [][NextGet]_vars

\* ------------------------------------------------------- properties
\* The sandbox directory of a session.
DirOf(u) == sessions[u].project_dir

\* C1: at most one analysis run is in progress at a time for one session
\* identifier: two handler threads inside the locked section never belong to
\* sessions with the same id.
C1_OneRunPerIdentifier ==
    \A r1, r2 \in Requests :
        (r1 # r2 /\ InRun(r1) /\ InRun(r2)) => sessions[sess[r1]].id # sessions[sess[r2]].id

\* C2: a request that has entered the locked section of a session and is about
\* to write or is writing its sandbox (materialize, install) never coexists
\* with a tool process an earlier request launched in that session, also after
\* a disconnect mid-stream and after a timeout.
C2_NoWriteWhileToolsRun ==
    \A r \in Requests :
        pc[r] \in {"write", "refresh", "install"} => \A p \in procs : p.sess # sess[r]

\* C2, its case: the client of a streaming request is gone, the generator is
\* being closed while a tool has timed out and another is still running, and a
\* later request of the same session waits for the lock.
C2_Witness ==
    \E r1, r2 \in Requests :
        /\ pc[r1] = "closing" /\ ~conn[r1]
        /\ \E t \in DOMAIN workers[r1] : workers[r1][t].kind = "timeout"
        /\ \E p \in procs : p.sess = sess[r1]
        /\ pc[r2] = "lock_wait" /\ sess[r2] = sess[r1]

\* C3: every step that deletes a sandbox directory or changes its files or its
\* .venv is taken while the lock of a session with that sandbox is held by a
\* request in its run; and no directory is deleted while a run uses it.
C3_SandboxChangesUnderLock ==
    [][\A d \in Dirs :
          /\ ((d \in disk /\ d \notin disk') \/ files'[d] # files[d]
                 \/ ((d \in venv) # (d \in venv')))
               => \E r \in Requests :
                      InRun(r) /\ DirOf(sess[r]) = d /\ sessions[sess[r]].lock = r
          /\ (d \in disk /\ d \notin disk')
               => ~ \E r \in Requests : InRun(r) /\ DirOf(sess[r]) = d]_vars

\* C4 as stated: two registered sessions (distinct identifiers) have distinct
\* sandbox paths, and a sandbox holds no files of another session.
C4_DistinctSandboxes ==
    /\ \A u, v \in Registered : u # v => DirOf(u) # DirOf(v)
    /\ \A u \in Registered : files[DirOf(u)] \in {0, u}

\* C4, amended: when no fixed project directory is configured, two registered
\* sessions have distinct sandbox paths and a sandbox holds no files of another
\* session.
C4_DistinctSandboxesUnlessFixed == ~fixed => C4_DistinctSandboxes

\* C4, its case: two sessions are registered without a fixed directory and
\* each has materialized files in its own sandbox.
C4_Witness ==
    /\ ~fixed
    /\ \E u, v \in Registered : u # v /\ files[DirOf(u)] = u /\ files[DirOf(v)] = v

\* C5: the registry lock is held only inside get_or_create and the reaper's
\* scan, whose holder can always take its next step (it never waits for a
\* session lock, an install or a tool); a request waiting for a session lock
\* waits for nothing but that lock, so runs of different sessions do not wait
\* for each other; and every session lock taken is held by a request in its
\* run of that session.
C5_LocksIndependent ==
    /\ \A r \in Requests :
          /\ mgrLock = r => pc[r] \in {"goc_lookup", "goc_create"}
          /\ mgrLock = r => ENABLED (GetOrCreateLookup(r) \/ GetOrCreateNew(r))
          /\ (pc[r] = "lock_wait" /\ sessions[sess[r]].lock = Free)
                => ENABLED AcquireSessionLock(r)
    /\ mgrLock = Reaper => (rpc = "scan" /\ ENABLED ReapScan)
    /\ \A u \in SessionIdx :
          sessions[u].lock # Free
             => (sessions[u].lock \in Requests /\ InRun(sessions[u].lock)
                  /\ sess[sessions[u].lock] = u)

\* C5, its case: two requests of different sessions are both streaming, each
\* with a tool process running, while the reaper holds the registry lock.
C5_Witness ==
    /\ mgrLock = Reaper
    /\ \E r1, r2 \in Requests :
          /\ pc[r1] = "stream" /\ pc[r2] = "stream" /\ sess[r1] # sess[r2]
          /\ \E p, q \in procs : p.sess = sess[r1] /\ q.sess = sess[r2]

\* What get_or_create does on its return step, apart from the sandbox: a
\* lookup that returns hands out the registered session of a known id with
\* created = FALSE and refreshes its timestamp; a create happens only for an
\* id that is not registered at that moment (so of several calls with one
\* unknown id exactly one creates and the others get its session) and
\* registers a new session, with a free lock of its own, under the requested
\* id or under a generated one, with created = TRUE.
ResolveReturns(r) ==
    /\ (pc[r] = "goc_lookup" /\ pc'[r] = "goc_create") => ~Known(hdr[r])
    /\ (pc[r] = "goc_lookup" /\ pc'[r] = "parse") =>
          /\ Known(hdr[r])
          /\ sess'[r] = registry[hdr[r]]
          /\ ~created'[r]
          /\ sessions'[sess'[r]].last_active = now
          /\ registry' = registry
          /\ Len(sessions') = Len(sessions)
    /\ (pc[r] = "goc_create" /\ pc'[r] = "parse") =>
          /\ ~Known(hdr[r])
          /\ created'[r]
          /\ sess'[r] = Len(sessions) + 1
          /\ Len(sessions') = Len(sessions) + 1
          /\ sessions'[sess'[r]].lock = Free
          /\ sessions'[sess'[r]].last_active = now
          /\ sessions'[sess'[r]].id \notin DOMAIN registry
          /\ hdr[r] \notin {NoHeader, ""} => sessions'[sess'[r]].id = hdr[r]
          /\ DOMAIN registry' = DOMAIN registry \cup {sessions'[sess'[r]].id}
          /\ registry'[sessions'[sess'[r]].id] = sess'[r]
          /\ \A i \in DOMAIN registry : registry'[i] = registry[i]

\* The sandbox of the session a create step made is a directory that did not
\* exist before, exists now, is empty, and is no other session's sandbox.
FreshSandbox(r) ==
    LET d == sessions'[sess'[r]].project_dir
    IN  /\ d \notin disk
        /\ d \in disk'
        /\ files'[d] = 0
        /\ d \notin venv'
        /\ \A u \in SessionIdx : DirOf(u) # d

\* C6 as stated: resolve returns the existing session of a known id with
\* created = FALSE and a refreshed timestamp; otherwise it registers a new
\* session with a fresh sandbox and a fresh lock and returns created = TRUE;
\* of concurrent calls with the same unknown id exactly one creates.
C6_Resolve ==
    [][\A r \in Requests :
          /\ ResolveReturns(r)
          /\ (pc[r] = "goc_create" /\ pc'[r] = "parse") => FreshSandbox(r)]_vars

\* C6, amended: as C6, but the sandbox of a new session is fresh only when no
\* fixed project directory is configured; with one, it is that directory.
C6_ResolveFreshUnlessFixed ==
    [][\A r \in Requests :
          /\ ResolveReturns(r)
          /\ (pc[r] = "goc_create" /\ pc'[r] = "parse") =>
                IF fixed
                THEN sessions'[sess'[r]].project_dir = FixedDir /\ FixedDir \in disk'
                ELSE FreshSandbox(r)]_vars

\* C6, its case: two calls with the same id have returned the same session,
\* one having created it and the other not.
C6_Witness ==
    \E r1, r2 \in Requests :
        /\ pc[r1] = "parse" /\ pc[r2] = "parse"
        /\ sess[r1] = sess[r2]
        /\ created[r1] /\ ~created[r2]
        /\ sessions[sess[r1]].id \in ClientIds

\* C7: a reap cycle unregisters exactly the sessions idle for longer than the
\* threshold and leaves the others registered; when it returns, its value is
\* their number and, unless a fixed directory is configured, none of their
\* sandbox directories exists; with a fixed directory nothing is deleted.
C7_ReapCycle ==
    [][/\ (rpc = "scan" /\ rpc' = "delete") =>
             LET stale == {u \in Registered : rnow - sessions[u].last_active > MaxIdle}
             IN  /\ toRemove' = stale
                 /\ DOMAIN registry' = {i \in DOMAIN registry : registry[i] \notin stale}
                 /\ \A i \in DOMAIN registry' : registry'[i] = registry[i]
       /\ (rpc = "delete" /\ rpc' = "delete" /\ rPending' # rPending /\ fixed)
             => fsVars' = fsVars
       /\ (rpc = "delete" /\ rpc' = "sleep") =>
             /\ reapCount' = Cardinality(toRemove)
             /\ ~fixed => \A u \in toRemove : DirOf(u) \notin disk']_vars

\* The positions of the result records of a response.
ResultsIn(q) == {i \in 1..Len(q) : q[i].type = "result"}

\* The step on which a streaming run ends with its client still connected.
StreamCompletes(r) == pc[r] = "stream" /\ pc'[r] = "idle" /\ conn[r]

\* C8: when a streaming run ends with its client connected, the response holds
\* exactly as many result records as tools were enabled, exactly one for each
\* enabled tool, each tagged with the name of the tool whose result it carries.
C8_OneResultPerTool ==
    [][\A r \in Requests :
          StreamCompletes(r) =>
              LET q == sent'[r]
              IN  /\ Cardinality(ResultsIn(q)) = Cardinality(enabled[r])
                  /\ \A t \in enabled[r] :
                        Cardinality({i \in ResultsIn(q) : q[i].tool = t}) = 1
                  /\ \A i \in ResultsIn(q) :
                        q[i].tool \in enabled[r] /\ q[i].data.tool = q[i].tool]_vars

\* C8, its case: a completed response to a connected client with three result
\* records, among them a timeout, a missing binary and an internal error.
C8_Witness ==
    \E r \in Requests :
        /\ pc[r] = "idle"
        /\ Len(sent[r]) = 5
        /\ sent[r][5] = Done
        /\ {sent[r][i].data.returncode : i \in 2..4} = {-1, -2, -3}

\* The code a tool's own outcome stands for: the exit code of a process that
\* exited, -1 for a missing binary, -2 for a timeout, -3 when collecting the
\* worker's result raised.
OwnCode(o) ==
    CASE o.kind = "exit" -> o.code
      [] o.kind = "notfound" -> -1
      [] o.kind = "timeout" -> -2
      [] OTHER -> -3

\* C9: the code of every result record sent is the code of that tool's own
\* outcome, whatever the other tools did.
C9_OwnOutcomeCode ==
    \A r \in Requests :
        pc[r] \in {"stream", "closing"} =>
            \A i \in ResultsIn(sent[r]) :
                sent[r][i].data.returncode = OwnCode(workers[r][sent[r][i].tool])

\* C10: a response is empty, a single error, or one metadata record followed
\* by result records and then at most one done record, which is last; done is
\* sent only when every enabled tool has its result record in the response;
\* with no tool enabled the completed stream is metadata, done; and a stream
\* that ends with its client connected ends with done.
C10_RecordOrder ==
    [][\A r \in Requests :
          LET q == sent'[r]
          IN  /\ \/ q = <<>>
                 \/ (Len(q) = 1 /\ q[1].type = "error")
                 \/ /\ q[1] = Metadata
                    /\ \A i \in 2..Len(q) :
                          \/ q[i].type = "result"
                          \/ (i = Len(q) /\ q[i] = Done)
              /\ (q # sent[r] /\ q # <<>> /\ q[Len(q)] = Done) =>
                    /\ \A t \in enabled[r] : \E i \in ResultsIn(q) : q[i].tool = t
                    /\ enabled[r] = {} => q = <<Metadata, Done>>
              /\ StreamCompletes(r) => q[Len(q)] = Done]_vars

\* C10, its cases: a completed response with metadata, two results and done,
\* after a run with no tool enabled has answered metadata, done.
C10_Witness ==
    \E r \in Requests :
        /\ pc[r] = "idle"
        /\ Len(sent[r]) = 4
        /\ sent[r][1] = Metadata
        /\ sent[r][2].type = "result" /\ sent[r][3].type = "result"
        /\ sent[r][4] = Done


\* C11: when the write of a streamed record (metadata, result or done) fails
\* because the client is gone, that one failed write is the only one: no
\* error response is attempted after it, nothing more reaches the client, the
\* request stops writing, and no launched tool process is taken away by the
\* failing step.
C11_DisconnectSwallowed ==
    [][\A r \in Requests :
          (pc[r] \in {"metadata", "stream"} /\ failed'[r] # failed[r]) =>
              /\ failed'[r] = failed[r] + 1
              /\ sent'[r] = sent[r]
              /\ pc'[r] \in {"closing", "idle"}
              /\ procs' = procs]_vars


\* C12: the step that ends the install either goes on to the metadata record
\* with an install result of code 0, or ends the request with no process
\* launched and, as the whole response, the one error object that carries
\* the nonzero install code (nothing if the client is gone); and tools are
\* launched only with an install result of code 0, after the metadata record.
C12_InstallGate ==
    [][\A r \in Requests :
          /\ (pc[r] = "install" /\ pc'[r] # "install") =>
                \/ /\ pc'[r] = "metadata"
                   /\ dependency_install'[r] = 0
                   /\ sent'[r] = <<>>
                \/ /\ pc'[r] = "idle"
                   /\ procs' = procs
                   /\ workers'[r] = EmptyFn
                   /\ \E c \in {InstallCode(o) : o \in InstallOutcomes \ {"ok"}} \cup {-1} :
                         /\ c # 0
                         /\ sent'[r] = IF conn[r] THEN <<InstallErrorResponse(c)>> ELSE <<>>
          /\ (pc[r] = "launch" /\ pc'[r] = "stream") =>
                /\ dependency_install[r] = 0
                /\ sent[r] = <<Metadata>>]_vars

\* C12, its case: a request whose install timed out was answered with the one
\* error object carrying -2, and nothing runs.
C12_Witness ==
    /\ pc["r1"] = "idle"
    /\ sent["r1"] = <<InstallErrorResponse(-2)>>
    /\ procs = {}


\* C13: every tool process a run waits on is bounded by a timeout: whenever a
\* worker's process is running, the expiry of its timeout is one of the ways
\* it can end.
C13_EveryProcessBounded ==
    \A r \in Requests : \A t \in DOMAIN workers[r] :
        workers[r][t] = Running => TimedOut \in ProcessOutcomes(t)


\* The step is a call of _write_files_to_project.
WriteFilesCalled == ncalls' = ncalls + 1 /\ call'.op = "_write_files_to_project"

\* The relative paths of a file list whose names are all valid.
AllValid(entries) == \A i \in DOMAIN entries : ~SafeRelativePath(entries[i].name).raised
RelOf(entries, i) == SafeRelativePath(entries[i].name).rel
Collides(entries) ==
    \E i, j \in DOMAIN entries : i < j /\ RelOf(entries, i) = RelOf(entries, j)

\* C14: a call of _write_files_to_project whose file list has an absolute,
\* parent-traversing or empty name, or two names that are equal after
\* normalization, applied to an existing sandbox, raises the validation error
\* and leaves the tree exactly as it was before the call.
C14_InvalidSetWritesNothing ==
    [][(/\ WriteFilesCalled
        /\ Root \in DOMAIN tree
        /\ (~AllValid(call'.files) \/ Collides(call'.files))) =>
          /\ returned'.raised = "ValueError"
          /\ tree' = tree]_vars


\* The configuration faults of a request body: files missing, no list or
\* empty; malformed dependencies; an unsupported target version; an unknown
\* tool name; a bad alternate source path.
BadFiles(body) == body.files # "list"
BadOptions(body) ==
    \/ body.dependencies = "malformed"
    \/ body.python_version = "unsupported"
    \/ UnknownTool \in body.enabled_tools
BadSourcePath(body) == body.ruff_repo_path = "bad"

\* The handler thread has read a body it rejects: the response is the one
\* client error, the thread does not hold and has not taken the session lock,
\* and no sandbox, environment or process has changed.
Rejects(r) ==
    (pc[r] = "parse" /\ pc'[r] = "idle") =>
        /\ sent'[r] = IF conn[r] THEN <<ErrorResponse(400)>> ELSE <<>>
        /\ sessions' = sessions
        /\ \A u \in SessionIdx : sessions[u].lock # r
        /\ fsVars' = fsVars
        /\ procs' = procs

\* The handler thread is about to read the body.
AboutToRead(r) == pc[r] # "parse" /\ pc'[r] = "parse"

\* C15: whichever body a handler thread is about to read, if it has a
\* configuration fault it fails validation; and a request that fails
\* validation is rejected with the client error before the session lock is
\* taken, with sandboxes, environments and processes unchanged.
C15_InvalidRejected ==
    [][\A r \in Requests :
          /\ AboutToRead(r) =>
                \A body \in RunBodies :
                    (BadFiles(body) \/ BadOptions(body) \/ BadSourcePath(body)) =>
                        ReadRequest(body).raised
          /\ Rejects(r)]_vars

\* C15, amended: as C15, but a bad alternate source path is a fault only when
\* the server is not in hosted mode, where the path is never looked at.
C15_InvalidRejectedUnlessHosted ==
    [][\A r \in Requests :
          /\ AboutToRead(r) =>
                \A body \in RunBodies :
                    (\/ BadFiles(body) \/ BadOptions(body)
                     \/ (BadSourcePath(body) /\ ~HOSTED_MODE)) =>
                        ReadRequest(body).raised
          /\ Rejects(r)]_vars

\* C15, its case: a request was rejected with 400 on a server where no
\* sandbox was ever written and nothing runs.
C15_Witness ==
    /\ pc["r1"] = "idle"
    /\ sent["r1"] = <<ErrorResponse(400)>>
    /\ \A d \in Dirs : files[d] = 0
    /\ venv = {}
    /\ procs = {}


\* Re-reading a sandbox outside its .venv: the (path, content) pairs of its
\* files; and the pairs a file list submits.
ReadBack(project) ==
    {<<p, project[p]>> : p \in {q \in DOMAIN project : project[q] # "dir" /\ q[1] # ".venv"}}
Submitted(entries) == {<<RelOf(entries, i), entries[i].content>> : i \in DOMAIN entries}

\* A file list of valid names, no two equal after normalization and none at
\* or under .venv, with string contents.
ValidFileSet(entries) ==
    /\ AllValid(entries)
    /\ ~Collides(entries)
    /\ \A i \in DOMAIN entries :
          /\ entries[i].content # NotStr
          /\ RelOf(entries, i) # <<>> /\ RelOf(entries, i)[1] # ".venv"

\* C16: a call of _write_files_to_project with a valid file set succeeds, and
\* re-reading the sandbox outside .venv gives exactly the submitted (name,
\* content) pairs, also when one name is a path prefix of another.
C16_ValidSetRoundTrips ==
    [][(WriteFilesCalled /\ ValidFileSet(call'.files)) =>
          /\ returned'.raised = "none"
          /\ ReadBack(tree') = Submitted(call'.files)]_vars


\* The dependency-environment part of a sandbox: .venv and what is below it.
EnvOf(project) == Restrict(project, {p \in DOMAIN project : p # <<>> /\ p[1] = ".venv"})

\* C17: a successful call of _write_files_to_project leaves, outside .venv,
\* exactly the files of its file list (whatever earlier calls wrote is gone),
\* leaves .venv and everything below it as it was, and changes nothing when
\* it repeats the successful call before it.
C17_TreeIsLastFileSet ==
    [][(WriteFilesCalled /\ returned'.raised = "none") =>
          /\ ReadBack(tree') = {s \in Submitted(call'.files) : s[1][1] # ".venv"}
          /\ EnvOf(tree') = EnvOf(tree)
          /\ (call' = call /\ returned.raised = "none") => tree' = tree]_vars


\* The step is a call of _run_uv_pip_install.
InstallCalled == ncalls' = ncalls + 1 /\ call'.op = "_run_uv_pip_install"

\* C18: a call of _run_uv_pip_install with an empty package list returns
\* ran = false, returncode 0 and empty output, runs no external step, and
\* leaves the tree, with or without an environment, exactly as it was.
C18_EmptyListIsNoOp ==
    [][(InstallCalled /\ ~call'.dependencies) =>
          /\ returned' = [ran |-> FALSE, steps |-> <<>>, returncode |-> 0, output |-> ""]
          /\ tree' = tree]_vars

\* C18, its case: the installer was called with an empty list on a sandbox
\* that has no environment, and there is still none.
C18_Witness ==
    /\ call.op = "_run_uv_pip_install" /\ ~call.dependencies
    /\ Root \in DOMAIN tree
    /\ VenvDir \notin DOMAIN tree

\* The external steps of an install result: whether a command was run, and
\* the steps that did not exit 0.
RanStep(steps, command) == \E i \in DOMAIN steps : steps[i].command = command
Failures(steps) == {i \in DOMAIN steps : steps[i].how # "ok"}
FirstFailure(steps) == CHOOSE i \in Failures(steps) : \A j \in Failures(steps) : i <= j

\* What C20 says about which steps run: environment creation only if no
\* environment exists, the package install only if creation was skipped or
\* exited 0; and, if a step failed, the code is that of the first failed
\* step: -1 for a missing binary, -2 for a timeout, else its exit code.
StepsAsStated ==
    LET steps == returned'.steps
    IN  /\ RanStep(steps, "uv venv") => VenvDir \notin DOMAIN tree
        /\ RanStep(steps, "uv pip install") =>
              \/ ~RanStep(steps, "uv venv")
              \/ steps[1].how = "ok"
        /\ Failures(steps) # {} =>
              /\ returned'.returncode = InstallCode(steps[FirstFailure(steps)].how)
              /\ returned'.returncode # 0
              /\ FirstFailure(steps) = Len(steps)

\* C20: for a non-empty package list the steps run as stated, and the result
\* code is 0 exactly when every step that ran exited 0.
C20_InstallSteps ==
    [][(InstallCalled /\ call'.dependencies) =>
          /\ StepsAsStated
          /\ returned'.returncode = 0 <=> Failures(returned'.steps) = {}]_vars

\* C20, amended: the steps run as stated; the package install is not run when
\* the environment has no interpreter, and then the code is -1 although no
\* step failed; the code is 0 exactly when the package install ran and every
\* step that ran exited 0.
C20_InstallStepsOrNoInterpreter ==
    [][(InstallCalled /\ call'.dependencies) =>
          LET steps == returned'.steps
          IN  /\ StepsAsStated
              /\ returned'.returncode = 0 <=>
                    (Failures(steps) = {} /\ RanStep(steps, "uv pip install"))
              /\ (Failures(steps) = {} /\ ~RanStep(steps, "uv pip install")) =>
                    /\ returned'.returncode = -1
                    /\ VenvPython \notin DOMAIN tree'
                    /\ VenvDir \in DOMAIN tree]_vars

\* C20, its cases: the installer was called with packages on a sandbox whose
\* environment has no interpreter and returned -1 without running a step.
C20_Witness ==
    /\ call.op = "_run_uv_pip_install" /\ call.dependencies
    /\ returned.steps = <<>> /\ returned.returncode = -1
    /\ VenvDir \in DOMAIN tree /\ VenvPython \notin DOMAIN tree


\* The handler thread is between taking the session lock and the end of the
\* install, with a request that carries an empty dependency list.
InstallsNothingOfItsOwn(r) ==
    pc[r] \in {"write", "refresh", "install"} /\ ~dependencies[r]

\* C19: no step of a request with an empty dependency list deletes a
\* dependency environment that exists (so none is re-created either): a
\* sandbox that holds one before the step holds it after the step.
C19_EnvKept ==
    [][\A r \in Requests : InstallsNothingOfItsOwn(r) => venv \subseteq venv']_vars

\* C19, amended: as C19, for requests that do not ask for a refresh of the
\* environment.
C19_EnvKeptUnlessRefresh ==
    [][\A r \in Requests :
          (InstallsNothingOfItsOwn(r) /\ ~refresh_venv[r]) => venv \subseteq venv']_vars

\* C19, its case: a request with an empty dependency list and no refresh has
\* been through materialization and install in a session whose sandbox holds
\* an environment, which is still there.
C19_Witness ==
    \E r \in Requests :
        /\ pc[r] = "metadata"
        /\ ~dependencies[r]
        /\ ~refresh_venv[r]
        /\ sessions[sess[r]].project_dir \in venv


\* C21: no step of a handler thread that serves a health or bootstrap
\* request changes the session registry, the sessions with their timestamps,
\* or the set of sandbox directories on disk.
C21_GetChangesNothing ==
    [][\A r \in Requests :
          (path[r] \in GetPaths /\ pc'[r] # pc[r]) =>
              /\ registry' = registry
              /\ sessions' = sessions
              /\ disk' = disk]_vars

\* A step that appends a result record to the response of r.
EmitsResult(r) ==
    /\ Len(sent'[r]) = Len(sent[r]) + 1
    /\ sent'[r][Len(sent'[r])].type = "result"

C23_AllLaunchedTogether ==
    [][\A r \in Requests :
          /\ (pc[r] = "launch" /\ pc'[r] = "stream") =>
                /\ DOMAIN workers'[r] = Launched(enabled[r])
                /\ \A t \in Launched(enabled[r]) :
                      /\ workers'[r][t] = Running
                      /\ [sess |-> sess[r], tool |-> t] \in procs'
          /\ \A t \in DOMAIN workers'[r] : workers'[r][t] # Queued]_vars

\* Three tools were launched and all three processes are running.
C23_Witness ==
    \E r \in Requests :
        /\ pc[r] = "stream"
        /\ Cardinality(DOMAIN workers[r]) = NumTools
        /\ \A t \in DOMAIN workers[r] :
              workers[r][t] = Running /\ [sess |-> sess[r], tool |-> t] \in procs

\* The result records of a response, as (tool, result) pairs.
Streamed(q) == {<<q[i].tool, q[i].data>> : i \in {j \in 1..Len(q) : q[j].type = "result"}}

\* What the claim compares of a result.
Compared(res) == [tool |-> res.tool, returncode |-> res.returncode, output |-> res.output]

\* A step that ends the stream of r with the done record at the client.
StreamCompleted(r) ==
    /\ pc[r] = "stream"
    /\ Len(sent'[r]) = Len(sent[r]) + 1
    /\ sent'[r][Len(sent'[r])].type = "done"

\* C24: batch and streaming agree. When a run over known tools only (no
\* alternate ruff source) has streamed all its results, the (tool, result)
\* pairs it yielded name exactly the keys of the dictionary batch mode returns
\* for the same tools and the same process outcomes, each with the same tool,
\* returncode and output.
C24_BatchEqualsStreaming ==
    [][\A r \in Requests :
          (StreamCompleted(r) /\ RUFF_TY_TOOL_NAME \notin enabled[r]) =>
              LET batch == RunAllTools(enabled[r], workers[r])
              IN  {<<p[1], Compared(p[2])>> : p \in Streamed(sent[r])}
                  = {<<t, Compared(batch[t])>> : t \in DOMAIN batch}]_vars

\* A stream of two tools has ended; the worker of pyright had raised.
C24_Witness ==
    \E r \in Requests :
        /\ Len(sent[r]) = 4
        /\ sent[r][4].type = "done"
        /\ {sent[r][i].tool : i \in 2..3} = {"ty", "pyright"}
        /\ \E i \in 2..3 : sent[r][i].tool = "pyright" /\ sent[r][i].data.returncode = -3

NormalizeCalled == call.op = "_normalize_enabled_tools_for_order"
\* The tool order of the request the call was made for.
RequestOrder == ToolOrderForRequest(~HOSTED_MODE /\ call.ruff_repo_path)
Stripped(item) == RStrip(LStrip(item.text))
NamesKnown(item) == Len(Stripped(item)) = 1 /\ Stripped(item)[1] \in Range(RequestOrder)
InOrderOf(q, order) ==
    LET Listed(t) == t \in Range(q) IN q = SelectSeq(order, Listed)

\* What holds of every normalization whatever one takes an unknown name to be.
NormalizedList ==
    /\ ~returned.raised =>
          /\ Range(returned.value) \subseteq Range(RequestOrder)
          /\ InOrderOf(returned.value, RequestOrder)
          /\ \A i, j \in 1..Len(returned.value) :
                returned.value[i] = returned.value[j] => i = j
          /\ RUFF_TY_TOOL_NAME \in Range(returned.value) => call.ruff_repo_path
    /\ call.raw.kind = "none" => ~returned.raised /\ returned.value = RequestOrder
    /\ call.raw.kind = "notlist" => returned.raised

\* C25 as stated: the normalized list has no duplicates, lies within the tool
\* order of the request and follows it; an absent value gives the whole tool
\* order; ty_ruff is accepted only with an alternate ruff source; and every
\* entry that is not the name of a known tool, surrounding blanks aside, has
\* the list rejected.
C25_UnknownNamesRejected ==
    NormalizeCalled =>
        /\ NormalizedList
        /\ (call.raw.kind = "list"
              /\ \E i \in 1..Len(call.raw.items) :
                    ~call.raw.items[i].isstr \/ ~NamesKnown(call.raw.items[i]))
             => returned.raised

\* C25 as the code has it: as above, but an entry that is blank after
\* stripping is passed over instead of rejected; the list is rejected exactly
\* when an entry is no string or is, stripped, neither blank nor a name of the
\* tool order, and otherwise holds exactly the stripped names of its
\* non-blank entries.
C25_UnknownNamesRejectedBlanksSkipped ==
    NormalizeCalled =>
        /\ NormalizedList
        /\ call.raw.kind = "list" =>
              LET items == call.raw.items
                  nonblank == {i \in 1..Len(items) : Stripped(items[i]) # <<>>}
              IN  /\ returned.raised <=>
                        \E i \in 1..Len(items) :
                            \/ ~items[i].isstr
                            \/ i \in nonblank /\ ~NamesKnown(items[i])
                  /\ ~returned.raised =>
                        Range(returned.value) = {Stripped(items[i])[1] : i \in nonblank}

\* pyright, a blank entry and a padded ty, in this order: accepted as ty, pyright.
C25_Witness ==
    /\ NormalizeCalled
    /\ call.raw = ListOf(<<Text(<<"pyright">>), Text(<<Blank>>), Text(<<Blank, "ty", Blank>>)>>)
    /\ ~returned.raised
    /\ returned.value = <<"ty", "pyright">>

CommandBuilt == call.op = "_command_for_tool"
\* The submitted paths with the analyzable extension, in the order submitted.
AnalyzablePaths ==
    LET Analyzable(f) == f[Len(f)] = ".py"
    IN  SelectSeq(IF call.file_paths = None THEN <<>> ELSE call.file_paths, Analyzable)
IsSuffix(q, argv) ==
    Len(q) <= Len(argv) /\ SubSeq(argv, Len(argv) - Len(q) + 1, Len(argv)) = q

\* C26: for every tool and every submitted (non-empty) file list the argv ends
\* with exactly the submitted paths that have the analyzable extension and
\* contains no directory wildcard.
C26_ExplicitFilesOnly ==
    (CommandBuilt /\ call.file_paths # None /\ call.file_paths # <<>>) =>
        /\ IsSuffix(AnalyzablePaths, returned.argv)
        /\ \A i \in 1..Len(returned.argv) : returned.argv[i] # Arg(".")

\* C27: for every known tool and supported version the argv holds a
\* target-version flag followed by the requested version.
C27_VersionFlagPassed ==
    CommandBuilt =>
        \E i \in 1..(Len(returned.argv) - 1) :
            /\ returned.argv[i] \in {Arg("--python-version"), Arg("--pythonversion")}
            /\ returned.argv[i + 1] = call.python_version

\* C28: whenever an environment's interpreter is given, the argv runs the
\* tool through it or passes it with an interpreter flag, whether or not a
\* local source is supplied for the tool.
C28_BoundToEnvironment ==
    (CommandBuilt /\ call.venv_python # None) =>
        \/ returned.argv[1] = call.venv_python /\ returned.argv[2] = Arg("-m")
        \/ \E i \in 1..(Len(returned.argv) - 1) :
              /\ returned.argv[i] = Arg("--python-executable")
              /\ returned.argv[i + 1] = call.venv_python

\* C29: a request with the refresh flag goes from materialization to the
\* removal of the environment and from there to the install, which starts
\* without an environment; the install is run even when the dependency list
\* is empty, so that the request gets past it only with an environment that
\* the install created; and from then until the request ends, its tools
\* included, that environment stays in place.
C29_RefreshRebuildsEnvironment ==
    [][\A r \in Requests :
          (InRun(r) /\ refresh_venv[r]) =>
              LET d == sessions[sess[r]].project_dir
              IN  /\ (pc[r] = "write" /\ InRun(r)') => pc'[r] \in {"write", "refresh"}
                  /\ pc[r] = "refresh" => pc'[r] \in {"refresh", "install"}
                  /\ pc'[r] = "install" => d \notin venv'
                  /\ (pc[r] = "install" /\ pc'[r] = "metadata") =>
                        d \notin venv /\ d \in venv'
                  /\ pc[r] \in {"metadata", "launch", "stream", "closing"} =>
                        d \in venv /\ d \in venv'
                  /\ pc'[r] \in {"metadata", "launch", "stream", "closing"} =>
                        pc[r] \in {"install", "metadata", "launch", "stream", "closing"}]_vars

\* The tools of a request with the refresh flag are running, with an
\* environment in the sandbox.
C29_Witness ==
    \E r \in Requests :
        /\ pc[r] = "stream"
        /\ refresh_venv[r]
        /\ sessions[sess[r]].project_dir \in venv
        /\ \E t \in DOMAIN workers[r] : workers[r][t] = Running

\* The adapter was applied to a diagnostic with an absolute file path and
\* integer coordinates.
Located ==
    /\ call.op = "_format_pyright_output"
    /\ call.item.line.isint
    /\ call.item.character.isint
    /\ call.item.file.isstr
    /\ IsAbsolute(call.item.file.text)
\* Where the reported file and the sandbox root are in the file system.
ReportedAt == Resolve(PathOf(call.item.file.text))
RootAt == Resolve(PathOf(call.cwd))
UnderRoot == ~RelativeTo(ReportedAt, RootAt).raised
HasParentSegment(text) == \E i \in 1..Len(text) : text[i] = ".."

\* C30: a diagnostic with integer line l and column c is displayed with l+1
\* and c+1; its path is displayed relative to the sandbox root when it lies
\* under the root and as the unchanged absolute path otherwise, and never as
\* a relative path with a parent-traversal segment.
C30_DisplayedLocation ==
    Located =>
        /\ returned.line_no = ToString(call.item.line.n + 1)
        /\ returned.col_no = ToString(call.item.character.n + 1)
        /\ IF UnderRoot
           THEN ~IsAbsolute(returned.display_path)
           ELSE returned.display_path = call.item.file.text
        /\ ~(~IsAbsolute(returned.display_path) /\ HasParentSegment(returned.display_path))

\* C31: when the standard output of pyright is not valid JSON the adapter
\* does not raise and returns exactly standard output followed by standard
\* error, the text the default normalizer gives.
C31_InvalidJsonFallsBack ==
    (/\ call.op = "_run_command.output"
     /\ call.name = "pyright"
     /\ ~IsValidJson(call.stdout)) =>
        /\ returned.raised = "none"
        /\ returned.text = call.stdout.text \o call.stderr
        /\ returned = NormalizeOutput("ty", call.stdout, call.stderr)

\* C32: output normalization is total, so that the result record of a tool
\* whose process exited on its own carries the exit code of the process and
\* never the internal-error code -3.
C32_ExitedProcessKeepsItsCode ==
    [][\A r \in Requests :
          EmitsResult(r) =>
              LET rec == sent'[r][Len(sent'[r])]
                  o == workers[r][rec.tool]
              IN  o.kind = "exit" =>
                      /\ rec.data.returncode = o.code
                      /\ rec.data.returncode # -3]_vars

\* Nobody is inside the locked section on the session of r.
SessionIdle(r) == \A q \in Requests : ~(InRun(q) /\ sess[q] = sess[r])

\* C33: every step by which a request leaves the locked section, however it
\* leaves it, frees the lock of its session; a lock is held only by a request
\* inside the locked section of that session; and a request waiting for the
\* lock of a session on which no run is in progress can take it.
C33_LockReleasedOnEveryExit ==
    [][\A r \in Requests :
          /\ (InRun(r) /\ ~InRun(r)') => sessions'[sess[r]].lock = Free
          /\ \A u \in 1..Len(sessions) :
                sessions[u].lock = r => InRun(r) /\ sess[r] = u
          /\ (pc[r] = "lock_wait" /\ SessionIdle(r)) => ENABLED AcquireSessionLock(r)]_vars

\* A request whose client had gone left the locked section with a failed
\* write, and the other request, on the same session, waits for the lock,
\* which is free.
C33_Witness ==
    \E r, q \in Requests :
        /\ r # q
        /\ pc[q] = "idle"
        /\ failed[q] > 0
        /\ pc[r] = "lock_wait"
        /\ sessions[sess[r]].lock = Free
        /\ Len(sessions) = 1

\* C34: in every deployment mode, the fixed shared directory included, no two
\* requests are inside the locked section (materialize, install, run) on the
\* same sandbox directory at the same time.
C34_OneRunPerDirectory ==
    \A r1, r2 \in Requests :
        (r1 # r2 /\ InRun(r1) /\ InRun(r2)) => DirOf(sess[r1]) # DirOf(sess[r2])

\* get_or_create returns from its creating branch (lines 106-120) in this step.
Creates(r) == pc[r] = "goc_create" /\ pc'[r] \notin {"goc_create", "exit"}

\* Earlier Session objects with the identifier sid that the registry no longer
\* holds: they have been reaped.
ReapedWithId(sid) == {v \in SessionIdx \ Registered : sessions[v].id = sid}

\* C35: without a fixed project directory, a session created under the
\* identifier of a reaped session has a sandbox directory different from the
\* reaped session's and a lock of its own, free even while the reaped
\* session's lock is held, wherever the reaper's removal loop stands; and no
\* turn of the removal loop removes the directory of a session that is in the
\* registry.
C35_ReapedIdGetsFreshSandbox ==
    [][~fixed =>
         /\ \A r \in Requests :
               Creates(r) =>
                   LET u == sess'[r]
                   IN  /\ u \notin SessionIdx
                       /\ sessions'[u].lock = Free
                       /\ \A v \in ReapedWithId(sessions'[u].id) :
                             sessions'[u].project_dir # DirOf(v)
         /\ (rpc = "delete" /\ rpc' = "delete" /\ rPending' # rPending) =>
               \A d \in disk \ disk' : \A v \in Registered : DirOf(v) # d]_vars

\* A session was reaped while a request held its lock, a session with the same
\* identifier is in the registry again, and the reaper has not yet removed the
\* reaped session's directory.
C35_Witness ==
    /\ ~fixed
    /\ \E v \in rPending : \E u \in Registered :
          /\ sessions[u].id = sessions[v].id
          /\ sessions[v].lock # Free
          /\ DirOf(v) \in disk

\* C36: a call of _write_files_to_project whose file list is accepted (it
\* returns without raising) leaves .venv and everything below it exactly as it
\* was: nothing there is created, overwritten or deleted, also when a name of
\* the list is .venv or lies under it.
C36_EnvironmentUntouched ==
    [][(WriteFilesCalled /\ returned'.raised = "none") => EnvOf(tree') = EnvOf(tree)]_vars
====
